---- MODULE Spec2Model ----
(***************************************************************************)
(* A model of the SOUL compiler front-end core: the resolver's fixed-point *)
(* driver (ResolutionPass::run) with its sub-passes over an abstract AST,  *)
(* overload resolution, generic function specialisation, and the lowering  *)
(* of processor state variables to HEART.                                  *)
(***************************************************************************)
EXTENDS Integers, Sequences, FiniteSets, TLC

\* ------------------------------------------------------------------ bounds
\* statements in the parsed body of the root module's run() function
MaxStatements == 2

\* candidate functions declared for the call of the overload programs
MaxCandidates == 3

\* calls to the generic function in run() of the specialisation programs
MaxCalls == 3

\* ------------------------------------------------------------- sequences
NonEmptySeqOf(S, n) == UNION { [1..k -> S] : k \in 1..n }

RECURSIVE SumSeq(_)
SumSeq(s) == IF s = <<>> THEN 0 ELSE Head(s) + SumSeq(Tail(s))

RemoveAt(s, i) == [j \in 1..(Len(s) - 1) |-> IF j < i THEN s[j] ELSE s[j + 1]]

\* ------------------------------------------------------------------ types
\* soul::Type reduced to what the passes look at: the kind of the type and
\* its const / reference modifiers.
Type(k) == [kind |-> k, isConst |-> FALSE, isReference |-> FALSE]

ConstType(k) == [kind |-> k, isConst |-> TRUE, isReference |-> FALSE]

isPrimitive(t) == t.kind \in {"int32", "float32", "float64"}

isBoundedInt(t) == t.kind = "wrap"

isArray(t) == t.kind = "array"

removeConstIfPresent(t) == [t EXCEPT !.isConst = FALSE]

removeReferenceIfPresent(t) == [t EXCEPT !.isReference = FALSE]

isIdentical(a, b) == a = b

\* TypeRules::canSilentlyCastTo (dest, source): widening numeric casts only
canSilentlyCastTo(dest, source) ==
    \/ dest.kind = source.kind
    \/ source.kind = "int32" /\ dest.kind \in {"float64"}
    \/ source.kind = "float32" /\ dest.kind = "float64"

\* ------------------------------------------------------------- AST nodes
Null == [kind |-> "null"]

Constant(t, v) == [kind |-> "Constant", type |-> t, value |-> v]

QualifiedIdentifier(p) == [kind |-> "QualifiedIdentifier", path |-> p]

VariableRef(v) == [kind |-> "VariableRef", variable |-> v]

OutputEndpointRef(o) == [kind |-> "OutputEndpointRef", output |-> o]

ConcreteType(t) == [kind |-> "ConcreteType", type |-> t]

BinaryOperator(op, l, r) ==
    [kind |-> "BinaryOperator", operation |-> op, lhs |-> l, rhs |-> r]

WriteToEndpoint(t, v) == [kind |-> "WriteToEndpoint", target |-> t, value |-> v]

Assignment(t, v) == [kind |-> "Assignment", target |-> t, newValue |-> v]

CallOrCast(name, args) ==
    [kind |-> "CallOrCast", nameOrType |-> QualifiedIdentifier(name), arguments |-> args]

\* the parsed expression T (args) whose name is the type T
CastCall(t, args) == [kind |-> "CallOrCast", nameOrType |-> ConcreteType(t), arguments |-> args]

\* args holds the source of the cast: no expression, or one
TypeCast(t, args) == [kind |-> "TypeCast", targetType |-> t, arguments |-> args]

\* f is the identity of the target function: <<module, index>>
FunctionCall(f, args) ==
    [kind |-> "FunctionCall", targetFunction |-> f, arguments |-> args]

AdvanceClock == [kind |-> "AdvanceClock"]

\* target++  (and ++target, target--, --target)
PreOrPostIncOrDec(t) == [kind |-> "PreOrPostIncOrDec", target |-> t]

\* op is "makeConst" or "makeReference": the type expressions const T and T&
TypeMetaFunction(op, src) == [kind |-> "TypeMetaFunction", operation |-> op, source |-> src]

\* the child expressions of a node, in the order a visitor walks them
Kids(n) ==
    CASE n.kind = "BinaryOperator" -> <<n.lhs, n.rhs>>
      [] n.kind = "WriteToEndpoint" -> <<n.target, n.value>>
      [] n.kind = "Assignment" -> <<n.target, n.newValue>>
      [] n.kind \in {"CallOrCast", "FunctionCall", "TypeCast"} -> n.arguments
      [] n.kind = "TypeMetaFunction" -> <<n.source>>
      [] n.kind = "PreOrPostIncOrDec" -> <<n.target>>
      [] OTHER -> <<>>

WithKids(n, ks) ==
    CASE n.kind = "BinaryOperator" ->
             [n EXCEPT !.lhs = ks[1], !.rhs = ks[2]]
      [] n.kind = "WriteToEndpoint" -> [n EXCEPT !.target = ks[1], !.value = ks[2]]
      [] n.kind = "Assignment" -> [n EXCEPT !.target = ks[1], !.newValue = ks[2]]
      [] n.kind \in {"CallOrCast", "FunctionCall", "TypeCast"} -> [n EXCEPT !.arguments = ks]
      [] n.kind = "TypeMetaFunction" -> [n EXCEPT !.source = ks[1]]
      [] n.kind = "PreOrPostIncOrDec" -> [n EXCEPT !.target = ks[1]]
      [] OTHER -> n

\* every node of the tree rooted at n
RECURSIVE SubNodes(_)
SubNodes(n) == {n} \cup UNION { SubNodes(Kids(n)[i]) : i \in DOMAIN Kids(n) }

\* --------------------------------------------------------------- modules
\* A module (AST::ModuleBase) is a record
\*   [parent, subModules, isFullyResolved, stateVariables, functions]
\* a state variable (AST::VariableDeclaration) is
\*   [name, type, isExternal, initialValue, numReads, numWrites]
\* a function (AST::Function) is
\*   [name, parameters, genericWildcards, orginalGenericFunction, block, source]
\* where source keeps the parsed text of the function (wildcards and block),
\* which StructuralParser::cloneFunction parses again.
NoFunction == <<>>

VariableDeclaration(name, type, isExternal, init) ==
    [name |-> name, type |-> type, isExternal |-> isExternal,
     initialValue |-> init, numReads |-> 0, numWrites |-> 0]

\* a parameter: its declared type expression (a ConcreteType once resolved)
Parameter(declaredType) == [declaredType |-> declaredType]

Function(name, params, wildcards, block) ==
    [name |-> name, parameters |-> params, genericWildcards |-> wildcards,
     genericSpecialisations |-> <<>>, orginalGenericFunction |-> NoFunction,
     block |-> block,
     source |-> [parameters |-> params, genericWildcards |-> wildcards, block |-> block]]

Module(parent, subs, vars, fns) ==
    [parent |-> parent, subModules |-> subs, isFullyResolved |-> FALSE,
     stateVariables |-> vars, functions |-> fns]

isGeneric(f) == f.genericWildcards # <<>>

isRunFunction(f) == f.name = "run"

\* the modules of the scope chain of module m, innermost first
RECURSIVE ScopeChain(_, _)
ScopeChain(ms, m) == IF m = 0 THEN <<>> ELSE <<m>> \o ScopeChain(ms, ms[m].parent)

\* a function is identified by fid = <<module, index in the function list>>
FunctionExists(ms, fid) ==
    fid # NoFunction /\ fid[1] \in DOMAIN ms /\ fid[2] \in DOMAIN ms[fid[1]].functions

GetFunction(ms, fid) == ms[fid[1]].functions[fid[2]]

\* state variables are looked up by name through the whole program
VariableOwners(ms, name) ==
    { m \in DOMAIN ms : \E i \in DOMAIN ms[m].stateVariables : ms[m].stateVariables[i].name = name }

VariableExists(ms, name) == VariableOwners(ms, name) # {}

GetVariable(ms, name) ==
    LET m == CHOOSE mm \in VariableOwners(ms, name) : TRUE
        i == CHOOSE j \in DOMAIN ms[m].stateVariables : ms[m].stateVariables[j].name = name
    IN ms[m].stateVariables[i]

\* Scope::performFullNameSearch for the QualifiedIdentifierResolver's search
\* (variables, types, processors, endpoints; stops at the first scope with
\* results), made from the scope c = [module, function]: the using
\* declarations of a specialised function, then the state variables.  Every
\* module declares an output "out"; "ambiguous" stands for a name that two
\* declarations of one scope share.
ItemsFound(ms, c, path) ==
    CASE c.function # 0 /\ \E i \in DOMAIN GetFunction(ms, <<c.module, c.function>>).genericSpecialisations :
                GetFunction(ms, <<c.module, c.function>>).genericSpecialisations[i].name = path ->
             LET f == GetFunction(ms, <<c.module, c.function>>)
                 i == CHOOSE j \in DOMAIN f.genericSpecialisations : f.genericSpecialisations[j].name = path
             IN <<[item |-> "Expression", name |-> path, exp |-> f.genericSpecialisations[i].targetType]>>
      [] path = "out" -> <<[item |-> "OutputDeclaration", name |-> "out"]>>
      [] path = "ambiguous" -> <<[item |-> "VariableDeclaration", name |-> "ambiguous"],
                                 [item |-> "OutputDeclaration", name |-> "ambiguous"]>>
      [] VariableExists(ms, path) -> <<[item |-> "VariableDeclaration", name |-> path]>>
      [] OTHER -> <<>>

\* AST::Expression::isResolved
RECURSIVE isResolved(_, _)
isResolved(ms, n) ==
    CASE n.kind \in {"QualifiedIdentifier", "CallOrCast"} -> FALSE
      [] n.kind = "VariableRef" ->
             LET v == GetVariable(ms, n.variable)
             IN v.initialValue = Null \/ isResolved(ms, v.initialValue)
      [] OTHER -> \A i \in DOMAIN Kids(n) : isResolved(ms, Kids(n)[i])

\* AST::isResolvedAsValue
isResolvedAsValue(ms, n) ==
    /\ n.kind \in {"Constant", "VariableRef", "BinaryOperator", "FunctionCall", "TypeCast"}
    /\ isResolved(ms, n)

\* AST::Expression::getAsConstant: only a Constant node is one
getAsConstant(n) == IF n.kind = "Constant" THEN n ELSE Null

\* AST::Expression::isOutputEndpoint
RECURSIVE isOutputEndpoint(_)
isOutputEndpoint(n) ==
    CASE n.kind \in {"OutputEndpointRef", "WriteToEndpoint"} -> TRUE
      [] n.kind = "BinaryOperator" -> n.operation = "leftShift" /\ isOutputEndpoint(n.lhs)
      [] OTHER -> FALSE

\* AST::Expression::isAssignable
isAssignable(ms, n) ==
    n.kind = "VariableRef" /\ ~ GetVariable(ms, n.variable).type.isConst

\* AST::Expression::getResultType
RECURSIVE getResultType(_, _)
getResultType(ms, n) ==
    CASE n.kind = "Constant" -> n.type
      [] n.kind = "VariableRef" -> GetVariable(ms, n.variable).type
      [] n.kind = "BinaryOperator" -> getResultType(ms, n.lhs)
      [] n.kind = "TypeCast" -> n.targetType
      [] OTHER -> Type("void")

\* AST::isResolvedAsType
RECURSIVE isResolvedAsType(_)
isResolvedAsType(n) ==
    CASE n.kind = "ConcreteType" -> TRUE
      [] n.kind = "TypeMetaFunction" -> isResolvedAsType(n.source)
      [] OTHER -> FALSE

\* AST::Expression::resolveAsType
RECURSIVE resolveAsType(_)
resolveAsType(n) ==
    CASE n.kind = "ConcreteType" -> n.type
      [] n.kind = "TypeMetaFunction" ->
             IF n.operation = "makeConst"
                 THEN [resolveAsType(n.source) EXCEPT !.isConst = TRUE]
                 ELSE [resolveAsType(n.source) EXCEPT !.isReference = TRUE]
      [] OTHER -> Type("void")

\* ----------------------------------------------------- rewriting visitors
\* The state of one pass object (ErrorIgnoringRewritingASTVisitor): the AST
\* it rewrites, numFails, itemsReplaced, the compile error it threw ("" while
\* none was thrown), and the names of the variables whose references the
\* ConstantFolder replaced by their constant value.
NewVisitor(ms) ==
    [ms |-> ms, numFails |-> 0, itemsReplaced |-> 0, error |-> "",
     numVariablesResolved |-> 0, isUsedAsReference |-> FALSE, foldedVariables |-> {}]

Result(vs, n) == [vs |-> vs, node |-> n]

fail(vs) == [vs EXCEPT !.numFails = @ + 1]

throwError(vs, e) == [vs EXCEPT !.error = e]

\* ResolutionPass::convertToCast
convertToCast(call, destType) == TypeCast(destType, call.arguments)

\* the pass context: [pass, module, function, ignoreErrors]
RECURSIVE visitObject(_, _, _)

RECURSIVE visitItems(_, _, _, _)
\* RewritingASTVisitor::replaceExpression on each item of a list, from item i
visitItems(c, vs, items, i) ==
    IF i > Len(items) \/ vs.error # "" THEN [vs |-> vs, nodes |-> items]
    ELSE LET replaceExpression(r) ==
                 visitItems(c,
                            IF r.node # items[i] /\ r.vs.error = ""
                                THEN [r.vs EXCEPT !.itemsReplaced = @ + 1]
                                ELSE r.vs,
                            [items EXCEPT ![i] = r.node], i + 1)
         IN replaceExpression(visitObject(c, vs, items[i]))

\* RewritingASTVisitor::visit of a node: replace each of its children
visitChildren(c, vs, n) ==
    LET visited(r) == Result(r.vs, WithKids(n, r.nodes))
    IN visited(visitItems(c, vs, Kids(n), 1))

\* a QualifiedIdentifierResolver::visit that reports an identifier it cannot
\* resolve without looking at ignoreErrors
QualifiedIdentifierResolver_visit_Reporting(c, vs, n) ==
    CASE n.kind = "QualifiedIdentifier" ->
             LET found(itemsFound) ==
                     IF Len(itemsFound) = 1
                     THEN CASE itemsFound[1].item = "Expression" -> Result(vs, itemsFound[1].exp)
                            [] itemsFound[1].item = "VariableDeclaration" ->
                                   Result([vs EXCEPT !.numVariablesResolved = @ + 1],
                                          VariableRef(itemsFound[1].name))
                            [] OTHER -> Result(vs, OutputEndpointRef(itemsFound[1].name))
                     ELSE Result(throwError(vs, IF itemsFound = <<>> THEN "unresolvedSymbol"
                                                                     ELSE "ambiguousSymbol"), n)
             IN found(ItemsFound(vs.ms, c, n.path))
      [] n.kind = "CallOrCast" ->
             LET visited(r) ==
                     IF r.vs.error = ""
                        /\ (\A i \in DOMAIN r.node.arguments : isResolved(r.vs.ms, r.node.arguments[i]))
                        /\ isResolvedAsType(r.node.nameOrType)
                     THEN Result(r.vs, convertToCast(r.node, resolveAsType(r.node.nameOrType)))
                     ELSE r
             IN visited(visitChildren(c, vs, n))
      [] OTHER -> visitChildren(c, vs, n)

\* QualifiedIdentifierResolver::visit
QualifiedIdentifierResolver_visit(c, vs, n) ==
    CASE n.kind = "QualifiedIdentifier" ->
             LET found(itemsFound) ==
                     IF Len(itemsFound) = 1
                     THEN CASE itemsFound[1].item = "Expression" -> Result(vs, itemsFound[1].exp)
                            [] itemsFound[1].item = "VariableDeclaration" ->
                                   Result([vs EXCEPT !.numVariablesResolved = @ + 1],
                                          VariableRef(itemsFound[1].name))
                            [] OTHER -> Result(vs, OutputEndpointRef(itemsFound[1].name))
                     ELSE IF ~ c.ignoreErrors
                          THEN Result(throwError(vs, IF itemsFound = <<>> THEN "unresolvedSymbol"
                                                                         ELSE "ambiguousSymbol"), n)
                          ELSE Result(fail(vs), n)
             IN found(ItemsFound(vs.ms, c, n.path))
      [] n.kind = "CallOrCast" ->
             \* the arguments are visited; a call whose name is a type is a cast
             LET visited(r) ==
                     IF r.vs.error = ""
                        /\ (\A i \in DOMAIN r.node.arguments : isResolved(r.vs.ms, r.node.arguments[i]))
                        /\ isResolvedAsType(r.node.nameOrType)
                     THEN Result(r.vs, convertToCast(r.node, resolveAsType(r.node.nameOrType)))
                     ELSE r
             IN visited(visitChildren(c, vs, n))
      [] OTHER -> visitChildren(c, vs, n)

\* TypeResolver::visit
TypeResolver_visit(c, vs, n) ==
    CASE n.kind = "TypeMetaFunction" ->
             LET visited(r) ==
                     IF r.vs.error # "" THEN r
                     ELSE IF isResolvedAsType(r.node)
                         THEN Result(r.vs, ConcreteType(resolveAsType(r.node)))
                     ELSE IF c.ignoreErrors THEN Result(fail(r.vs), r.node)
                     ELSE Result(throwError(r.vs, "cannotResolveSourceType"), r.node)
             IN visited(visitChildren(c, vs, n))
      [] n.kind = "BinaryOperator" ->
             LET visited(r) ==
                     IF r.vs.error # "" \/ ~ isResolved(r.vs.ms, r.node) THEN r
                     ELSE IF ~ isResolvedAsValue(r.vs.ms, r.node.rhs)
                         THEN Result(throwError(r.vs, "expectedValue"), r.node)
                     ELSE IF isOutputEndpoint(r.node) THEN Result(fail(r.vs), r.node)
                     ELSE IF ~ isResolvedAsValue(r.vs.ms, r.node.lhs)
                         THEN Result(throwError(r.vs, "expectedValue"), r.node)
                     ELSE r
             IN visited(visitChildren(c, vs, n))
      [] OTHER -> visitChildren(c, vs, n)

\* ConvertStreamOperations::visit
ConvertStreamOperations_visit(c, vs, n) ==
    CASE n.kind = "BinaryOperator" ->
             LET visited(r) ==
                     IF r.vs.error = "" /\ isOutputEndpoint(r.node)
                     THEN visitChildren(c, r.vs, WriteToEndpoint(r.node.lhs, r.node.rhs))
                     ELSE r
             IN visited(visitChildren(c, vs, n))
      [] OTHER -> visitChildren(c, vs, n)

\* ------------------------------------------------ generic specialisation
InvalidType == Type("invalid")

isValid(t) == t.kind # "invalid"

\* GenericFunctionResolver::matchParameterAgainstWildcard: the type the
\* wildcard takes for this parameter (InvalidType if the parameter does not
\* use it) and whether a reference was met on the way
RECURSIVE matchParameterAgainstWildcard(_, _, _, _)
matchParameterAgainstWildcard(paramType, callerArgumentType, wildcardToFind, anyReferencesInvolved) ==
    CASE paramType.kind = "QualifiedIdentifier" ->
             [type |-> IF paramType.path = wildcardToFind THEN callerArgumentType ELSE InvalidType,
              anyReferencesInvolved |-> anyReferencesInvolved]
      [] paramType.kind = "TypeMetaFunction" /\ paramType.operation = "makeConst" ->
             matchParameterAgainstWildcard(paramType.source, removeConstIfPresent(callerArgumentType),
                                           wildcardToFind, anyReferencesInvolved)
      [] paramType.kind = "TypeMetaFunction" /\ paramType.operation = "makeReference" ->
             matchParameterAgainstWildcard(paramType.source, removeReferenceIfPresent(callerArgumentType),
                                           wildcardToFind, TRUE)
      [] OTHER -> [type |-> InvalidType, anyReferencesInvolved |-> anyReferencesInvolved]

\* the loop over the parameters for one wildcard, from parameter i on, with
\* the type resolved so far
RECURSIVE resolveWildcard(_, _, _, _, _)
resolveWildcard(parameters, callerArgumentTypes, wildcardName, i, resolvedType) ==
    IF i > Len(parameters) THEN [failed |-> FALSE, type |-> resolvedType]
    ELSE LET next(t) == resolveWildcard(parameters, callerArgumentTypes, wildcardName, i + 1, t)
             matched(m) ==
                 LET newMatch == IF ~ m.type.isReference THEN removeConstIfPresent(m.type)
                                                         ELSE m.type
                 IN IF ~ isValid(m.type) THEN next(resolvedType)
                    ELSE IF ~ isValid(resolvedType) THEN next(newMatch)
                    ELSE IF isIdentical(newMatch, resolvedType) THEN next(resolvedType)
                    ELSE IF ~ m.anyReferencesInvolved /\ canSilentlyCastTo(newMatch, resolvedType)
                         THEN next(newMatch)
                    ELSE IF m.anyReferencesInvolved \/ ~ canSilentlyCastTo(resolvedType, newMatch)
                         THEN [failed |-> TRUE, type |-> resolvedType]
                    ELSE next(resolvedType)
         IN matched(matchParameterAgainstWildcard(parameters[i].declaredType,
                                                  callerArgumentTypes[i], wildcardName, FALSE))

\* GenericFunctionResolver::resolveGenericFunctionTypes on the clone
RECURSIVE resolveGenericFunctionTypes(_, _, _)
resolveGenericFunctionTypes(function, callerArgumentTypes, shouldIgnoreErrors) ==
    IF function.genericWildcards = <<>>
    THEN [ok |-> TRUE, error |-> "", function |-> function]
    ELSE LET wildcardName == function.genericWildcards[Len(function.genericWildcards)]
             f1 == [function EXCEPT !.genericWildcards = SubSeq(@, 1, Len(@) - 1)]
             resolved(w) ==
                 IF w.failed \/ ~ isValid(w.type)
                 THEN [ok |-> FALSE,
                       error |-> IF shouldIgnoreErrors THEN "" ELSE "failedToResolveGeneric",
                       function |-> f1]
                 ELSE resolveGenericFunctionTypes(
                          [f1 EXCEPT !.genericSpecialisations =
                               Append(@, [name |-> wildcardName, targetType |-> ConcreteType(w.type)])],
                          callerArgumentTypes, shouldIgnoreErrors)
         IN resolved(resolveWildcard(f1.parameters, callerArgumentTypes, wildcardName, 1, InvalidType))

\* StructuralParser::cloneFunction: parse the function's text again at the
\* end of its parent module's function list
cloneFunction(ms, fid) ==
    LET f == GetFunction(ms, fid)
        parsed == [f EXCEPT !.parameters = f.source.parameters,
                            !.genericWildcards = f.source.genericWildcards,
                            !.genericSpecialisations = <<>>,
                            !.orginalGenericFunction = NoFunction,
                            !.block = f.source.block]
    IN [ms EXCEPT ![fid[1]].isFullyResolved = FALSE,
                  ![fid[1]].functions = Append(@, parsed)]

\* CallOrCast::getIDStringForArgumentTypes
RECURSIVE getIDStringForArgumentTypes(_)
getIDStringForArgumentTypes(types) ==
    IF types = <<>> THEN "" ELSE "_" \o Head(types).kind \o getIDStringForArgumentTypes(Tail(types))

specialisedFunctionName(f, types) ==
    "_" \o f.name \o "_specialised" \o getIDStringForArgumentTypes(types)

\* a getOrCreateSpecialisedFunction that clones without looking for an
\* existing specialisation
getOrCreateSpecialisedFunction_Cloning(vs, genericFunction, name, callerArgumentTypes, shouldIgnoreErrors) ==
    LET parent == genericFunction[1]
        cloned(ms1) ==
            LET new == Len(ms1[parent].functions)
                specialised(r) ==
                    IF r.ok
                    THEN [vs |-> [vs EXCEPT !.ms = [ms1 EXCEPT ![parent].functions[new] = r.function]],
                          function |-> <<parent, new>>]
                    ELSE IF r.error # ""
                    THEN [vs |-> throwError([vs EXCEPT !.ms = [ms1 EXCEPT ![parent].functions[new]
                                                                             = r.function]],
                                            r.error),
                          function |-> NoFunction]
                    ELSE [vs |-> [vs EXCEPT !.ms = [ms1 EXCEPT ![parent].functions = RemoveAt(@, new)]],
                          function |-> NoFunction]
            IN specialised(resolveGenericFunctionTypes(
                               [ms1[parent].functions[new] EXCEPT
                                    !.name = name, !.orginalGenericFunction = genericFunction],
                               callerArgumentTypes, shouldIgnoreErrors))
    IN cloned(cloneFunction(vs.ms, genericFunction))

\* a getOrCreateSpecialisedFunction that leaves the clone in the parent module
\* when its wildcards cannot be resolved
getOrCreateSpecialisedFunction_KeepingClone(vs, genericFunction, name, callerArgumentTypes, shouldIgnoreErrors) ==
    LET parent == genericFunction[1]
        fns == vs.ms[parent].functions
        existing == { i \in DOMAIN fns : fns[i].name = name
                                          /\ fns[i].orginalGenericFunction = genericFunction }
        cloned(ms1) ==
            LET new == Len(ms1[parent].functions)
                specialised(r) ==
                    IF r.ok
                    THEN [vs |-> [vs EXCEPT !.ms = [ms1 EXCEPT ![parent].functions[new] = r.function]],
                          function |-> <<parent, new>>]
                    ELSE IF r.error # ""
                    THEN [vs |-> throwError([vs EXCEPT !.ms = [ms1 EXCEPT ![parent].functions[new]
                                                                             = r.function]],
                                            r.error),
                          function |-> NoFunction]
                    ELSE [vs |-> [vs EXCEPT !.ms = [ms1 EXCEPT ![parent].functions[new] = r.function]],
                          function |-> NoFunction]
            IN specialised(resolveGenericFunctionTypes(
                               [ms1[parent].functions[new] EXCEPT
                                    !.name = name, !.orginalGenericFunction = genericFunction],
                               callerArgumentTypes, shouldIgnoreErrors))
    IN IF existing # {}
       THEN [vs |-> vs, function |-> <<parent, CHOOSE i \in existing : \A j \in existing : i <= j>>]
       ELSE cloned(cloneFunction(vs.ms, genericFunction))

\* GenericFunctionResolver::getOrCreateSpecialisedFunction
getOrCreateSpecialisedFunction(vs, genericFunction, name, callerArgumentTypes, shouldIgnoreErrors) ==
    LET parent == genericFunction[1]
        fns == vs.ms[parent].functions
        existing == { i \in DOMAIN fns : fns[i].name = name
                                          /\ fns[i].orginalGenericFunction = genericFunction }
        cloned(ms1) ==
            LET new == Len(ms1[parent].functions)
                specialised(r) ==
                    IF r.ok
                    THEN [vs |-> [vs EXCEPT !.ms = [ms1 EXCEPT ![parent].functions[new] = r.function]],
                          function |-> <<parent, new>>]
                    ELSE IF r.error # ""
                    THEN [vs |-> throwError([vs EXCEPT !.ms = [ms1 EXCEPT ![parent].functions[new]
                                                                             = r.function]],
                                            r.error),
                          function |-> NoFunction]
                    ELSE [vs |-> [vs EXCEPT !.ms = [ms1 EXCEPT ![parent].functions = RemoveAt(@, new)]],
                          function |-> NoFunction]
            IN specialised(resolveGenericFunctionTypes(
                               [ms1[parent].functions[new] EXCEPT
                                    !.name = name, !.orginalGenericFunction = genericFunction],
                               callerArgumentTypes, shouldIgnoreErrors))
    IN IF existing # {}
       THEN [vs |-> vs, function |-> <<parent, CHOOSE i \in existing : \A j \in existing : i <= j>>]
       ELSE cloned(cloneFunction(vs.ms, genericFunction))


\* ---------------------------------------------------- overload resolution
\* TypeRules::canPassAsArgumentTo
canPassAsArgumentTo(target, argType, mustBeExactMatch) ==
    IF mustBeExactMatch \/ (target.isReference /\ ~ target.isConst)
        THEN target.kind = argType.kind
        ELSE canSilentlyCastTo(target, argType)

\* FunctionResolver::PossibleFunction
PossibleFunction(ms, fid, argTypes) ==
    LET function == GetFunction(ms, fid)
        unresolvedGeneric(i) == isGeneric(function)
                                  /\ ~ isResolvedAsType(function.parameters[i].declaredType)
        targetParamType(i) == resolveAsType(function.parameters[i].declaredType)
        needsCast(i) == ~ unresolvedGeneric(i)
                          /\ ~ canPassAsArgumentTo(targetParamType(i), argTypes[i], TRUE)
    IN [function |-> fid,
        isImpossible |-> \E i \in DOMAIN argTypes :
                            needsCast(i) /\ ~ canPassAsArgumentTo(targetParamType(i), argTypes[i], FALSE),
        requiresCast |-> \E i \in DOMAIN argTypes : needsCast(i),
        requiresGeneric |-> \E i \in DOMAIN argTypes : unresolvedGeneric(i)]

isExactMatch(f) == ~ (f.isImpossible \/ f.requiresCast \/ f.requiresGeneric)

\* the functions of one module that the search for a call can return
FunctionsFoundIn(ms, m, name, numArgs) ==
    LET ids == [i \in DOMAIN ms[m].functions |-> <<m, i>>]
        found(fid) == LET f == GetFunction(ms, fid)
                      IN /\ f.name = name
                         /\ Len(f.parameters) = numArgs
                         /\ f.orginalGenericFunction = NoFunction
    IN SelectSeq(ids, found)

RECURSIVE FunctionsFoundInChain(_, _, _, _)
FunctionsFoundInChain(ms, chain, name, numArgs) ==
    IF chain = <<>> THEN <<>>
    ELSE FunctionsFoundIn(ms, Head(chain), name, numArgs)
           \o FunctionsFoundInChain(ms, Tail(chain), name, numArgs)

\* FunctionResolver::findAllPossibleFunctions
findAllPossibleFunctions(ms, c, call) ==
    LET argTypes == [i \in DOMAIN call.arguments |-> getResultType(ms, call.arguments[i])]
        possible(found) == [i \in DOMAIN found |-> PossibleFunction(ms, found[i], argTypes)]
    IN possible(FunctionsFoundInChain(ms, ScopeChain(ms, c.module),
                                      call.nameOrType.path, Len(call.arguments)))

countNumberOfExactMatches(matches) ==
    Cardinality({ i \in DOMAIN matches : isExactMatch(matches[i]) })

countNumberOfMatchesWithCast(matches) ==
    Cardinality({ i \in DOMAIN matches : matches[i].requiresCast /\ ~ matches[i].isImpossible })

canResolveGenerics(c) == c.pass = "GenericFunctionResolver"

\* FunctionResolver / GenericFunctionResolver::createCallToGenericFunction
createCallToGenericFunction(c, vs, call, genericFunction, shouldIgnoreErrors) ==
    IF ~ canResolveGenerics(c) THEN Result(fail(vs), Null)
    ELSE LET argTypes == [i \in DOMAIN call.arguments |-> getResultType(vs.ms, call.arguments[i])]
             callTo(g) == IF g.function # NoFunction
                              THEN Result(g.vs, FunctionCall(g.function, call.arguments))
                              ELSE Result(g.vs, Null)
         IN callTo(getOrCreateSpecialisedFunction(
                       vs, genericFunction,
                       specialisedFunctionName(GetFunction(vs.ms, genericFunction), argTypes),
                       argTypes, shouldIgnoreErrors))

\* FunctionResolver::resolveFunction
resolveFunction(c, vs, f, call, ignoreErrorsInGenerics) ==
    IF isRunFunction(GetFunction(vs.ms, f.function))
        THEN Result(throwError(vs, "cannotCallRunFunction"), Null)
    ELSE IF isGeneric(GetFunction(vs.ms, f.function))
        THEN createCallToGenericFunction(c, vs, call, f.function, ignoreErrorsInGenerics)
    ELSE Result(vs, FunctionCall(f.function, call.arguments))

\* the loop over the generic candidates of FunctionResolver::visit (CallOrCast)
RECURSIVE matchGenerics(_, _, _, _, _, _)
matchGenerics(c, vs, possibles, call, i, matchingGenerics) ==
    IF i > Len(possibles) \/ vs.error # ""
    THEN [vs |-> vs, matchingGenerics |-> matchingGenerics, gaveUp |-> FALSE]
    ELSE IF ~ possibles[i].isImpossible /\ possibles[i].requiresGeneric
    THEN LET resolved(e) ==
                 IF e.node # Null
                 THEN matchGenerics(c, e.vs, possibles, call, i + 1, Append(matchingGenerics, e.node))
                 ELSE IF e.vs.error = "" /\ ~ canResolveGenerics(c)
                 THEN [vs |-> e.vs, matchingGenerics |-> matchingGenerics, gaveUp |-> TRUE]
                 ELSE matchGenerics(c, e.vs, possibles, call, i + 1, matchingGenerics)
         IN resolved(resolveFunction(c, vs, possibles[i], call, TRUE))
    ELSE matchGenerics(c, vs, possibles, call, i + 1, matchingGenerics)

\* SanityCheckPass::checkForDuplicateFunctions
hasDuplicateFunctions(ms, possibles) ==
    \E i, j \in DOMAIN possibles :
        /\ i < j
        /\ ~ isGeneric(GetFunction(ms, possibles[i].function))
        /\ ~ isGeneric(GetFunction(ms, possibles[j].function))
        /\ GetFunction(ms, possibles[i].function).parameters
             = GetFunction(ms, possibles[j].function).parameters

\* the errors that end FunctionResolver::visit (CallOrCast) when errors are
\* not ignored
reportUnresolvedCall(vs, possibles, exactMatches, numMatchingGenerics) ==
    LET totalMatches == Len(possibles)
        possibleWithCast == countNumberOfMatchesWithCast(possibles)
    IN IF totalMatches = 0 THEN throwError(vs, "unknownFunction")
       ELSE IF exactMatches + possibleWithCast = 0
               /\ totalMatches = 1 /\ ~ possibles[1].requiresGeneric
           THEN throwError(vs, "cannotCastType")
       ELSE IF exactMatches + possibleWithCast = 0 /\ numMatchingGenerics <= 1
           THEN throwError(vs, "noMatchForFunctionCall")
       ELSE IF totalMatches > 1 \/ numMatchingGenerics > 1
           THEN IF hasDuplicateFunctions(vs.ms, possibles)
                    THEN throwError(vs, "duplicateFunction")
                    ELSE throwError(vs, "ambiguousFunctionCall")
       ELSE fail(vs)

\* FunctionResolver::createAdvanceCall
createAdvanceCall(c, vs, call) ==
    IF Len(call.arguments) # 0 THEN Result(throwError(vs, "advanceHasNoArgs"), call)
    ELSE IF ~ isRunFunction(GetFunction(vs.ms, <<c.module, c.function>>))
        THEN Result(throwError(vs, "advanceMustBeCalledInRun"), call)
    ELSE Result(vs, AdvanceClock)

\* an overload selection that does not prefer the one exact match
selectOverload_WithoutExactMatch(c, vs, call) ==
    LET orCall(r) == IF r.node # Null THEN r ELSE Result(r.vs, call)
        select(possibles) ==
            LET totalMatches == Len(possibles)
                exactMatches == countNumberOfExactMatches(possibles)
                generics(g) ==
                    IF g.vs.error # "" \/ g.gaveUp THEN Result(g.vs, call)
                    ELSE IF Len(g.matchingGenerics) = 1 THEN Result(g.vs, g.matchingGenerics[1])
                    ELSE IF ~ c.ignoreErrors
                        THEN Result(reportUnresolvedCall(g.vs, possibles, exactMatches,
                                                         Len(g.matchingGenerics)), call)
                    ELSE Result(fail(g.vs), call)
            IN IF totalMatches = 1 /\ ~ possibles[1].isImpossible
               THEN orCall(resolveFunction(c, vs, possibles[1], call, c.ignoreErrors))
               ELSE generics(matchGenerics(c, vs, possibles, call, 1, <<>>))
    IN select(findAllPossibleFunctions(vs.ms, c, call))

\* the overload selection of FunctionResolver::visit (CallOrCast)
selectOverload(c, vs, call) ==
    LET orCall(r) == IF r.node # Null THEN r ELSE Result(r.vs, call)
        select(possibles) ==
            LET totalMatches == Len(possibles)
                exactMatches == countNumberOfExactMatches(possibles)
                generics(g) ==
                    IF g.vs.error # "" \/ g.gaveUp THEN Result(g.vs, call)
                    ELSE IF Len(g.matchingGenerics) = 1 THEN Result(g.vs, g.matchingGenerics[1])
                    ELSE IF ~ c.ignoreErrors
                        THEN Result(reportUnresolvedCall(g.vs, possibles, exactMatches,
                                                         Len(g.matchingGenerics)), call)
                    ELSE Result(fail(g.vs), call)
            IN IF totalMatches = 1 /\ ~ possibles[1].isImpossible
               THEN orCall(resolveFunction(c, vs, possibles[1], call, c.ignoreErrors))
               ELSE IF exactMatches = 1
               THEN LET i == CHOOSE j \in DOMAIN possibles : isExactMatch(possibles[j])
                    IN orCall(resolveFunction(c, vs, possibles[i], call, c.ignoreErrors))
               ELSE generics(matchGenerics(c, vs, possibles, call, 1, <<>>))
    IN select(findAllPossibleFunctions(vs.ms, c, call))

\* FunctionResolver::visit
FunctionResolver_visit(c, vs, n) ==
    CASE n.kind = "CallOrCast" ->
             LET resolve(vs1, call) ==
                     IF vs1.error # "" THEN Result(vs1, call)
                     ELSE IF isResolvedAsType(call.nameOrType)
                         THEN Result(vs1, convertToCast(call, resolveAsType(call.nameOrType)))
                     ELSE IF ~ \A i \in DOMAIN call.arguments : isResolved(vs1.ms, call.arguments[i])
                         THEN Result(fail(vs1), call)
                     ELSE IF call.nameOrType.path = "advance" THEN createAdvanceCall(c, vs1, call)
                     ELSE IF \E i \in DOMAIN call.arguments :
                                 ~ isResolvedAsValue(vs1.ms, call.arguments[i])
                         THEN IF c.ignoreErrors THEN Result(vs1, call)
                              ELSE Result(throwError(vs1, "expectedValue"), call)
                     ELSE selectOverload(c, vs1, call)
                 visited(r) == resolve(r.vs, r.node)
             IN visited(visitChildren(c, vs, n))
      [] OTHER -> visitChildren(c, vs, n)

\* -------------------------------------------------------- ConstantFolder
\* BinaryOp::apply on two integer constants; "" when no error is raised
applyError(op, rhs) == IF op = "divide" /\ rhs.value = 0 THEN "divideByZero" ELSE ""

apply(op, lhs, rhs) ==
    CASE op = "add" -> Constant(lhs.type, lhs.value + rhs.value)
      [] op = "divide" -> Constant(lhs.type, lhs.value \div rhs.value)
      [] OTHER -> Constant(lhs.type, lhs.value)

ConstantFolder_visitVariableRef_IgnoringWrites(c, vs, v) ==
    IF ~ isResolved(vs.ms, v) THEN Result(fail(vs), v)
    ELSE LET variable == GetVariable(vs.ms, v.variable)
             fold(vs1, cn) ==
                 IF vs1.error # "" THEN Result(vs1, v)
                 ELSE IF cn # Null /\ ~ isArray(cn.type)
                 THEN IF isIdentical(cn.type, variable.type)
                          THEN Result([vs1 EXCEPT !.foldedVariables = @ \cup {v.variable}],
                                      Constant(cn.type, cn.value))
                      ELSE IF canSilentlyCastTo(variable.type, cn.type)
                          THEN Result([vs1 EXCEPT !.foldedVariables = @ \cup {v.variable}],
                                      Constant(removeConstIfPresent(variable.type), cn.value))
                      ELSE Result(vs1, v)
                 ELSE Result(vs1, v)
             visited(r) == fold(r.vs, getAsConstant(r.node))
         IN IF variable.initialValue # Null
            THEN IF ~ isResolved(vs.ms, variable.initialValue) THEN Result(fail(vs), v)
                 ELSE visited(visitObject(c, vs, variable.initialValue))
            ELSE Result(vs, v)

\* ConstantFolder::visit (VariableRef)
ConstantFolder_visitVariableRef(c, vs, v) ==
    IF ~ isResolved(vs.ms, v) THEN Result(fail(vs), v)
    ELSE LET variable == GetVariable(vs.ms, v.variable)
             fold(vs1, cn) ==
                 IF vs1.error # "" THEN Result(vs1, v)
                 ELSE IF cn # Null /\ ~ isArray(cn.type)
                 THEN IF isIdentical(cn.type, variable.type)
                          THEN Result([vs1 EXCEPT !.foldedVariables = @ \cup {v.variable}],
                                      Constant(cn.type, cn.value))
                      ELSE IF canSilentlyCastTo(variable.type, cn.type)
                          THEN Result([vs1 EXCEPT !.foldedVariables = @ \cup {v.variable}],
                                      Constant(removeConstIfPresent(variable.type), cn.value))
                      ELSE Result(vs1, v)
                 ELSE Result(vs1, v)
             visited(r) == fold(r.vs, getAsConstant(r.node))
         IN IF variable.numWrites = 0 /\ variable.initialValue # Null
            THEN IF ~ isResolved(vs.ms, variable.initialValue) THEN Result(fail(vs), v)
                 ELSE visited(visitObject(c, vs, variable.initialValue))
            ELSE Result(vs, v)

\* the loop over the arguments of ConstantFolder::visit (FunctionCall)
RECURSIVE ConstantFolder_visitArguments(_, _, _, _, _)
ConstantFolder_visitArguments(c, vs, parameters, args, i) ==
    IF i > Len(args) \/ vs.error # "" THEN [vs |-> vs, nodes |-> args]
    ELSE IF ~ isResolvedAsType(parameters[i].declaredType)
    THEN ConstantFolder_visitArguments(c, vs, parameters, args, i + 1)
    ELSE LET paramType == resolveAsType(parameters[i].declaredType)
             vs1 == [vs EXCEPT !.isUsedAsReference = paramType.isReference]
             visited(r) == ConstantFolder_visitArguments(c, r.vs, parameters,
                                                         [args EXCEPT ![i] = r.nodes[1]], i + 1)
         IN IF paramType.isReference /\ ~ paramType.isConst
               /\ isResolvedAsValue(vs.ms, args[i]) /\ ~ isAssignable(vs.ms, args[i])
            THEN [vs |-> throwError(vs1, "cannotPassConstAsNonConstRef"), nodes |-> args]
            ELSE visited(visitItems(c, vs1, <<args[i]>>, 1))

\* ConstantFolder::visit (FunctionCall)
ConstantFolder_visitFunctionCall(c, vs, call) ==
    IF Len(call.arguments) # 0
    THEN LET checked(vs1, call1) ==
                 IF vs1.error # "" \/ isResolved(vs1.ms, call1) THEN Result(vs1, call1)
                 ELSE Result(fail(vs1), call1)
             visited(r) == checked([r.vs EXCEPT !.isUsedAsReference = vs.isUsedAsReference],
                                   [call EXCEPT !.arguments = r.nodes])
         IN visited(ConstantFolder_visitArguments(
                        c, vs, GetFunction(vs.ms, call.targetFunction).parameters,
                        call.arguments, 1))
    ELSE IF isResolved(vs.ms, call) THEN Result(vs, call)
    ELSE Result(fail(vs), call)

\* ConstantFolder::visit (BinaryOperator)
ConstantFolder_visitBinaryOperator(c, vs, n) ==
    LET fold(vs1, b) ==
            IF vs1.error # "" THEN Result(vs1, b)
            ELSE IF ~ isResolved(vs1.ms, b) THEN Result(fail(vs1), b)
            ELSE IF ~ isResolvedAsValue(vs1.ms, b.rhs) THEN Result(throwError(vs1, "expectedValue"), b)
            ELSE IF isOutputEndpoint(b) THEN Result(fail(vs1), b)
            ELSE IF ~ isResolvedAsValue(vs1.ms, b.lhs) THEN Result(throwError(vs1, "expectedValue"), b)
            ELSE IF getAsConstant(b.lhs) # Null /\ getAsConstant(b.rhs) # Null
            THEN IF applyError(b.operation, b.rhs) # ""
                     THEN Result(throwError(vs1, applyError(b.operation, b.rhs)), b)
                     ELSE Result(vs1, apply(b.operation, b.lhs, b.rhs))
            ELSE Result(vs1, b)
        visited(r) == fold(r.vs, r.node)
    IN visited(visitChildren(c, vs, n))

\* ConstantFolder::visit (TypeCast)
ConstantFolder_visitTypeCast(c, vs, n) ==
    LET fold(vs1, cast) ==
            IF vs1.error # "" THEN Result(vs1, cast)
            ELSE IF ~ isResolved(vs1.ms, cast) THEN Result(fail(vs1), cast)
            ELSE IF Len(cast.arguments) = 0 THEN Result(vs1, Constant(cast.targetType, 0))
            ELSE LET source == cast.arguments[1] IN
                 IF isResolvedAsValue(vs1.ms, source)
                    /\ isIdentical(getResultType(vs1.ms, source), cast.targetType)
                     THEN Result(vs1, source)
                 ELSE IF getAsConstant(source) # Null /\ canSilentlyCastTo(cast.targetType, source.type)
                     THEN Result(vs1, Constant(cast.targetType, source.value))
                 ELSE Result(vs1, cast)
        visited(r) == fold(r.vs, r.node)
    IN visited(visitChildren(c, vs, n))

\* ConstantFolder::visit
ConstantFolder_visit(c, vs, n) ==
    CASE n.kind = "VariableRef" -> ConstantFolder_visitVariableRef(c, vs, n)
      [] n.kind = "TypeCast" -> ConstantFolder_visitTypeCast(c, vs, n)
      [] n.kind = "FunctionCall" -> ConstantFolder_visitFunctionCall(c, vs, n)
      [] n.kind = "BinaryOperator" -> ConstantFolder_visitBinaryOperator(c, vs, n)
      [] OTHER -> visitChildren(c, vs, n)

\* ConstantFolder::visitExpression
ConstantFolder_visitExpression(c, vs, n) ==
    LET visited(r) == IF r.vs.error # "" \/ isResolved(r.vs.ms, r.node) THEN r
                      ELSE Result(fail(r.vs), r.node)
    IN visited(ConstantFolder_visit(c, vs, n))

\* the visit of one expression by the pass c.pass
visitObject(c, vs, n) ==
    IF vs.error # "" \/ n = Null THEN Result(vs, n)
    ELSE CASE c.pass = "QualifiedIdentifierResolver" -> QualifiedIdentifierResolver_visit(c, vs, n)
           [] c.pass = "TypeResolver" -> TypeResolver_visit(c, vs, n)
           [] c.pass = "ConvertStreamOperations" -> ConvertStreamOperations_visit(c, vs, n)
           [] c.pass = "ConstantFolder" -> ConstantFolder_visitExpression(c, vs, n)
           [] OTHER -> FunctionResolver_visit(c, vs, n)

\* ------------------------------------------------------ walking a module
\* the statements of the block of function c.function, from statement i
RECURSIVE visitStatements(_, _, _)
visitStatements(c, vs, i) ==
    LET block == GetFunction(vs.ms, <<c.module, c.function>>).block
        visited(r) ==
            visitStatements(
                c, [r.vs EXCEPT !.ms[c.module].functions[c.function].block[i] = r.nodes[1]], i + 1)
    IN IF i > Len(block) \/ vs.error # "" THEN vs
       ELSE visited(visitItems(c, vs, <<block[i]>>, 1))

\* the declared types of the parameters of function c.function
RECURSIVE visitParameters(_, _, _)
visitParameters(c, vs, i) ==
    LET parameters == GetFunction(vs.ms, <<c.module, c.function>>).parameters
        visited(r) ==
            visitParameters(
                c, [r.vs EXCEPT !.ms[c.module].functions[c.function].parameters[i].declaredType
                                    = r.nodes[1]], i + 1)
    IN IF i > Len(parameters) \/ vs.error # "" THEN vs
       ELSE visited(visitItems(c, vs, <<parameters[i].declaredType>>, 1))

\* the passes whose visit (AST::Function) leaves a generic function alone
SkipsGenericFunctions(pass) ==
    pass \in {"QualifiedIdentifierResolver", "TypeResolver", "FunctionResolver",
              "GenericFunctionResolver"}

\* the functions i..last of the module; a function that the pass itself
\* adds to the list is not walked by this pass
RECURSIVE visitFunctions(_, _, _, _)
visitFunctions(c, vs, i, last) ==
    IF i > last \/ vs.error # "" THEN vs
    ELSE LET cf == [c EXCEPT !.function = i]
             f == GetFunction(vs.ms, <<c.module, i>>)
         IN IF SkipsGenericFunctions(c.pass) /\ isGeneric(f)
            THEN visitFunctions(c, vs, i + 1, last)
            ELSE visitFunctions(c, visitStatements(cf, visitParameters(cf, vs, 1), 1), i + 1, last)

\* the initial values of the state variables, from variable i
RECURSIVE visitStateVariables(_, _, _)
visitStateVariables(c, vs, i) ==
    LET variables == vs.ms[c.module].stateVariables
        visited(r) ==
            visitStateVariables(
                c, [r.vs EXCEPT !.ms[c.module].stateVariables[i].initialValue = r.nodes[1]], i + 1)
    IN IF i > Len(variables) \/ vs.error # "" THEN vs
       ELSE visited(visitItems(c, vs, <<variables[i].initialValue>>, 1))

\* does the tree n refer to the variable name, through at most depth
\* initialisers
RECURSIVE refersTo(_, _, _, _)
refersTo(ms, n, name, depth) ==
    \E r \in SubNodes(n) :
        /\ r.kind = "VariableRef"
        /\ \/ r.variable = name
           \/ /\ depth > 0
              /\ refersTo(ms, GetVariable(ms, r.variable).initialValue, name, depth - 1)

\* QualifiedIdentifierResolver::performPass: RecursiveVariableInitialiserCheck
initialiserRefersToTarget(ms, m) ==
    \E i \in DOMAIN ms[m].stateVariables :
        refersTo(ms, ms[m].stateVariables[i].initialValue, ms[m].stateVariables[i].name,
                 Len(ms[m].stateVariables))

\* ErrorIgnoringRewritingASTVisitor::performPass: the pass object after it
\* has walked module m
performPass(ms, m, pass, ignoreErrors) ==
    LET c == [pass |-> pass, module |-> m, function |-> 0, ignoreErrors |-> ignoreErrors]
        checked(vs) ==
            IF pass = "QualifiedIdentifierResolver" /\ vs.error = ""
               /\ vs.numVariablesResolved > 0 /\ initialiserRefersToTarget(vs.ms, m)
            THEN throwError(vs, "initialiserRefersToTarget")
            ELSE vs
    IN checked(visitFunctions(c, visitStateVariables(c, NewVisitor(ms), 1), 1, Len(ms[m].functions)))

\* ---------------------------------------------------------- FullResolver
\* the first error FullResolver raises in the tree n ("" if none)
RECURSIVE FullResolver_visit(_, _)
FullResolver_visit(ms, n) ==
    LET kids == Kids(n)
        bad == { i \in DOMAIN kids : FullResolver_visit(ms, kids[i]) # "" }
    IN IF bad # {} THEN FullResolver_visit(ms, kids[CHOOSE i \in bad : \A j \in bad : i <= j])
       ELSE CASE n.kind = "QualifiedIdentifier" -> "unresolvedSymbol"
              [] n.kind = "CallOrCast" -> "cannotResolveFunctionOrCast"
              [] n.kind = "BinaryOperator" ->
                     IF ~ isResolvedAsValue(ms, n.rhs) THEN "expectedValue"
                     ELSE IF isOutputEndpoint(n) THEN ""
                     ELSE IF ~ isResolvedAsValue(ms, n.lhs) THEN "expectedValue"
                     ELSE ""
              [] n.kind = "WriteToEndpoint" ->
                     IF ~ isResolvedAsValue(ms, n.value) THEN "expectedValue" ELSE ""
              [] n.kind = "Assignment" ->
                     IF ~ isAssignable(ms, n.target) THEN "operatorNeedsAssignableTarget" ELSE ""
              [] OTHER -> ""

\* the trees FullResolver walks in module m: the initial values of the state
\* variables and the non-generic functions
FullResolverTrees(ms, m) ==
    { ms[m].stateVariables[i].initialValue : i \in DOMAIN ms[m].stateVariables }
      \cup UNION { { ms[m].functions[i].block[j] : j \in DOMAIN ms[m].functions[i].block }
                     \cup { ms[m].functions[i].parameters[j].declaredType :
                              j \in DOMAIN ms[m].functions[i].parameters } :
                   i \in { k \in DOMAIN ms[m].functions : ~ isGeneric(ms[m].functions[k]) } }

FullResolver(ms, m) ==
    LET errors == { FullResolver_visit(ms, n) : n \in FullResolverTrees(ms, m) \ {Null} } \ {""}
    IN IF errors = {} THEN "" ELSE CHOOSE e \in errors : TRUE

\* ---------------------------------------------- rebuildVariableUseCounts
\* UseCounter: the VariableRef nodes of the tree n that name the variable and
\* are visited with isWriting = w
RECURSIVE numVisits(_, _, _, _, _)
numVisits(ms, n, isWriting, name, w) ==
    CASE n.kind = "VariableRef" -> IF n.variable = name /\ isWriting = w THEN 1 ELSE 0
      [] n.kind = "Assignment" ->
             numVisits(ms, n.target, TRUE, name, w) + numVisits(ms, n.newValue, isWriting, name, w)
      [] n.kind = "PreOrPostIncOrDec" -> numVisits(ms, n.target, TRUE, name, w)
      [] n.kind = "CallOrCast" ->
             SumSeq([i \in DOMAIN n.arguments |-> numVisits(ms, n.arguments[i], TRUE, name, w)])
      [] n.kind = "FunctionCall" ->
             LET parameters == GetFunction(ms, n.targetFunction).parameters
                 writing(i) == IF isResolvedAsType(parameters[i].declaredType)
                                   THEN resolveAsType(parameters[i].declaredType).isReference
                                   ELSE TRUE
             IN SumSeq([i \in DOMAIN n.arguments |->
                           numVisits(ms, n.arguments[i], writing(i), name, w)])
      [] OTHER ->
             SumSeq([i \in DOMAIN Kids(n) |-> numVisits(ms, Kids(n)[i], isWriting, name, w)])

\* all the trees of module m, generic functions included
ModuleTrees(ms, m) ==
    [i \in DOMAIN ms[m].stateVariables |-> ms[m].stateVariables[i].initialValue]
      \o [i \in DOMAIN ms[m].functions |->
            [kind |-> "Block", statements |-> ms[m].functions[i].block]]

numVisitsInModule(ms, m, name, w) ==
    LET trees == ModuleTrees(ms, m)
        inTree(t) == IF t.kind = "Block"
                         THEN SumSeq([j \in DOMAIN t.statements |->
                                         numVisits(ms, t.statements[j], FALSE, name, w)])
                     ELSE IF t = Null THEN 0
                     ELSE numVisits(ms, t, FALSE, name, w)
    IN SumSeq([i \in DOMAIN trees |-> inTree(trees[i])])

\* rebuildVariableUseCounts: the declarations of module m are reset, then
\* every VariableRef of module m counts on the declaration it names
rebuildVariableUseCounts(ms, m) ==
    [k \in DOMAIN ms |->
        [ms[k] EXCEPT !.stateVariables =
            [i \in DOMAIN @ |->
                [@[i] EXCEPT
                    !.numReads = (IF k = m THEN 0 ELSE @)
                                   + numVisitsInModule(ms, m, ms[k].stateVariables[i].name, FALSE),
                    !.numWrites = (IF k = m THEN 0 ELSE @)
                                    + numVisitsInModule(ms, m, ms[k].stateVariables[i].name, TRUE)]]]]

\* ------------------------------------------------------------- the state
VARIABLES
    modules,    \* the AST: module id -> module
    stack,      \* the activations of ResolutionPass::run, outermost first
    result,     \* how the last outermost activation ended
    lastPass,   \* the last sub-pass that tryPass ran, and what it reported
    folded,     \* the variables whose references ConstantFolder has folded
    heart,      \* the generated HEART modules
    parser,     \* the tokens StructuralParser is given and what it made of them
    generator,  \* HEARTGenerator while it lowers the body of one function
    execution,  \* a run of the function that HEARTGenerator has built
    wrapper,    \* the output sink of SynchronousPerformerWrapper and its buffer
    loader      \* AudioFileToValue: the buffer loaded and the annotation given

vars == <<modules, stack, result, lastPass, folded, heart, parser, generator, execution, wrapper, loader>>

\* RunStats
NoStats == [numFailures |-> 0, numReplaced |-> 0]

add(stats, numFails, itemsReplaced) ==
    [numFailures |-> stats.numFailures + numFails,
     numReplaced |-> stats.numReplaced + itemsReplaced]

\* one activation of ResolutionPass::run: the module, the place reached in
\* the function, the argument, runStats, the index of the sub-module the
\* loop over the sub-modules has reached, and the sub-passes that tryPass
\* ran in the current iteration with runStats.numReplaced before and after
Activation(m, ignoreTypeAndConstantErrors) ==
    [module |-> m, pc |-> "run", ignoreTypeAndConstantErrors |-> ignoreTypeAndConstantErrors,
     runStats |-> NoStats, subModule |-> 1, passes |-> <<>>]

Top == stack[Len(stack)]

NoResult == [status |-> "none", error |-> "", runStats |-> NoStats, skipped |-> FALSE]

NoPass == [module |-> 0, pass |-> "", ignoreErrors |-> FALSE,
           numFails |-> 0, itemsReplaced |-> 0, error |-> ""]

\* StructuralParser before it is given anything to parse
NoParser == [tokens |-> <<>>, allowAssignment |-> FALSE, status |-> "none",
             error |-> "", expression |-> Null]

NoHeart == [generated |-> FALSE, stateVariables |-> <<>>, init |-> <<>>, functions |-> <<>>]

\* no function is being lowered, none is run
NoGenerator == [status |-> "none"]

NoExecution == [status |-> "none"]

\* SynchronousPerformerWrapper before attach: it has no sink
NoWrapper == [status |-> "detached"]

\* AudioFileToValue before a file is loaded
NoLoader == [status |-> "none"]

\* ------------------------------------------------------------ the programs
Literal(v) == Constant(Type("int32"), v)

\* the statement  out << v;
StreamWrite(v) == BinaryOperator("leftShift", QualifiedIdentifier("out"), v)

\* the statements a parsed run() body is made of
StatementShapes ==
    << Assignment(QualifiedIdentifier("x"), Literal(1)),                   \* x = 1;
       StreamWrite(QualifiedIdentifier("x")),                              \* out << x;
       StreamWrite(BinaryOperator("divide", Literal(1), Literal(0))),      \* out << 1 / 0;
       StreamWrite(QualifiedIdentifier("undefined")),                      \* out << undefined;
       CallOrCast("f", <<Literal(1)>>),                                    \* f (1);
       CallOrCast("g", <<Literal(1)>>),                                    \* g (1);
       CallOrCast("g", <<Constant(Type("float32"), 1)>>),                  \* g (1.0f);
       CallOrCast("advance", <<>>),                                        \* advance();
       CallOrCast("advance", <<Literal(1)>>),                              \* advance (1);
       PreOrPostIncOrDec(QualifiedIdentifier("x")) >>                      \* x++;

\* the bodies made of at most n of the statements of shapes, in their order
Bodies(shapes, n) ==
    LET indices == [i \in DOMAIN shapes |-> i]
        body(S) == LET chosen == SelectSeq(indices, LAMBDA i : i \in S)
                   IN [k \in DOMAIN chosen |-> shapes[chosen[k]]]
    IN { body(S) : S \in { T \in SUBSET DOMAIN shapes : Cardinality(T) \in 1..n } }

\* void f (int a) {}
PlainFunction == Function("f", <<Parameter(ConcreteType(Type("int32")))>>, <<>>, <<>>)

\* void g<T> (T a) { x = 1; }   and   void g<T> (const T a) { out << 1; }
GenericShapes ==
    { Function("g", <<Parameter(QualifiedIdentifier("T"))>>, <<"T">>,
               <<Assignment(QualifiedIdentifier("x"), Literal(1))>>),
      Function("g", <<Parameter(TypeMetaFunction("makeConst", QualifiedIdentifier("T")))>>, <<"T">>,
               <<StreamWrite(Literal(1))>>) }

\* the body of the function of the sub-module
SubModuleShapes == { <<StreamWrite(Literal(1))>>, <<CallOrCast("g", <<Literal(1)>>)>> }

\* module 1 declares the state variable x and the functions run, f and
\* (optionally) g; its sub-module 2 declares one function
Program(x, body, generic, subBody) ==
    1 :> Module(0, <<2>>, <<x>>, <<Function("run", <<>>, <<>>, body), PlainFunction>> \o generic)
    @@ 2 :> Module(1, <<>>, <<>>, <<Function("s", <<>>, <<>>, subBody)>>)

Programs ==
    { Program(VariableDeclaration("x", Type("int32"), FALSE, Literal(1)), body, generic, subBody) :
        body \in Bodies(StatementShapes, MaxStatements),
        generic \in { <<g>> : g \in GenericShapes } \cup { <<>> },
        subBody \in SubModuleShapes }

Init ==
    /\ modules \in Programs
    /\ stack = <<>>
    /\ result = NoResult
    /\ lastPass = NoPass
    /\ folded = {}
    /\ heart = [m \in DOMAIN modules |-> NoHeart]
    /\ parser = NoParser
    /\ generator = NoGenerator
    /\ execution = NoExecution
    /\ wrapper = NoWrapper
    /\ loader = NoLoader

\* ------------------------------------------------- ResolutionPass::run
\* the activation on top of the stack returns stats to its caller
Return(stats, skipped) ==
    IF Len(stack) = 1
    THEN /\ stack' = <<>>
         /\ result' = [status |-> "returned", error |-> "", runStats |-> stats, skipped |-> skipped]
    ELSE /\ stack' = [SubSeq(stack, 1, Len(stack) - 1) EXCEPT
                         ![Len(stack) - 1].runStats = add(@, stats.numFailures, stats.numReplaced),
                         ![Len(stack) - 1].subModule = @ + 1]
         /\ UNCHANGED result

\* a compile error leaves every activation
Throw(e) ==
    /\ stack' = <<>>
    /\ result' = [status |-> "thrown", error |-> e, runStats |-> NoStats, skipped |-> FALSE]

Goto(pc) == stack' = [stack EXCEPT ![Len(stack)].pc = pc]

\* the compiler calls ResolutionPass::run on the root module
Run(ignoreTypeAndConstantErrors) ==
    /\ stack = <<>>
    /\ result.status # "thrown"
    /\ stack' = <<Activation(1, ignoreTypeAndConstantErrors)>>
    /\ result' = NoResult
    /\ UNCHANGED <<modules, lastPass, folded, heart, parser, generator, execution, wrapper, loader>>

\* a RunEntry that does not look at isFullyResolved
RunEntry_Unconditional ==
    /\ stack # <<>> /\ Top.pc = "run"
    /\ Goto("loop")
    /\ UNCHANGED <<modules, result, lastPass, folded, heart, parser, generator, execution, wrapper, loader>>

\* if (module.isFullyResolved) return runStats;
RunEntry ==
    /\ stack # <<>> /\ Top.pc = "run"
    /\ IF modules[Top.module].isFullyResolved
           THEN Return(NoStats, TRUE)
           ELSE Goto("loop") /\ UNCHANGED result
    /\ UNCHANGED <<modules, lastPass, folded, heart, parser, generator, execution, wrapper, loader>>

\* for (;;) { runStats.clear();
BeginIteration ==
    /\ stack # <<>> /\ Top.pc = "loop"
    /\ stack' = [stack EXCEPT ![Len(stack)].pc = "QualifiedIdentifierResolver",
                              ![Len(stack)].runStats = NoStats,
                              ![Len(stack)].subModule = 1,
                              ![Len(stack)].passes = <<>>]
    /\ UNCHANGED <<modules, result, lastPass, folded, heart, parser, generator, execution, wrapper, loader>>

\* tryPass<PassType> (runStats, ignoreErrors) reached at pc, going on at next
tryPass(pass, ignoreErrors, pc, next) ==
    /\ stack # <<>> /\ Top.pc = pc
    /\ LET performed(vs) ==
               /\ modules' = vs.ms
               /\ folded' = folded \cup vs.foldedVariables
               /\ lastPass' = [module |-> Top.module, pass |-> pass, ignoreErrors |-> ignoreErrors,
                               numFails |-> vs.numFails, itemsReplaced |-> vs.itemsReplaced,
                               error |-> vs.error]
               /\ IF vs.error # "" THEN Throw(vs.error)
                  ELSE /\ stack' = [stack EXCEPT
                                       ![Len(stack)].pc = next,
                                       ![Len(stack)].runStats =
                                           add(@, vs.numFails, vs.itemsReplaced),
                                       ![Len(stack)].passes =
                                           Append(@, [pass |-> pass, ignoreErrors |-> ignoreErrors,
                                                      before |-> Top.runStats.numReplaced,
                                                      after |-> Top.runStats.numReplaced
                                                                  + vs.itemsReplaced])]
                       /\ UNCHANGED result
       IN performed(performPass(modules, Top.module, pass, ignoreErrors))
    /\ UNCHANGED <<heart, parser, generator, execution, wrapper, loader>>

\* rebuildVariableUseCounts (module) reached at pc
rebuild(pc, next) ==
    /\ stack # <<>> /\ Top.pc = pc
    /\ modules' = rebuildVariableUseCounts(modules, Top.module)
    /\ stack' = [stack EXCEPT
                    ![Len(stack)].pc = next,
                    ![Len(stack)].passes =
                        Append(@, [pass |-> "rebuildVariableUseCounts", ignoreErrors |-> TRUE,
                                   before |-> Top.runStats.numReplaced,
                                   after |-> Top.runStats.numReplaced])]
    /\ UNCHANGED <<result, lastPass, folded, heart, parser, generator, execution, wrapper, loader>>

TryQualifiedIdentifierResolver ==
    tryPass("QualifiedIdentifierResolver", TRUE, "QualifiedIdentifierResolver", "TypeResolver")

\* a TypeResolver step that goes on with the FunctionResolver
TryTypeResolver_ThenFunctionResolver ==
    tryPass("TypeResolver", TRUE, "TypeResolver", "FunctionResolver")

TryTypeResolver == tryPass("TypeResolver", TRUE, "TypeResolver", "ConvertStreamOperations")

TryConvertStreamOperations ==
    tryPass("ConvertStreamOperations", TRUE, "ConvertStreamOperations", "rebuildVariableUseCounts1")

RebuildUseCountsBeforeFunctionResolver == rebuild("rebuildVariableUseCounts1", "FunctionResolver")

TryFunctionResolver == tryPass("FunctionResolver", TRUE, "FunctionResolver", "ConstantFolder")

TryConstantFolder == tryPass("ConstantFolder", TRUE, "ConstantFolder", "rebuildVariableUseCounts2")

RebuildUseCountsAfterConstantFolder == rebuild("rebuildVariableUseCounts2", "GenericFunctionResolver")

\* if (runStats.numReplaced == 0) tryPass<GenericFunctionResolver> (runStats, true);
TryGenericFunctionResolver ==
    /\ stack # <<>> /\ Top.runStats.numReplaced = 0
    /\ tryPass("GenericFunctionResolver", TRUE, "GenericFunctionResolver", "subModules")

SkipGenericFunctionResolver ==
    /\ stack # <<>> /\ Top.pc = "GenericFunctionResolver"
    /\ Top.runStats.numReplaced # 0
    /\ Goto("subModules")
    /\ UNCHANGED <<modules, result, lastPass, folded, heart, parser, generator, execution, wrapper, loader>>

\* a loop over the sub-modules that also runs between the FunctionResolver
\* and the ConstantFolder
RunSubModule_BetweenSubPasses ==
    /\ stack # <<>> /\ Top.pc \in {"subModules", "ConstantFolder"}
    /\ Top.subModule <= Len(modules[Top.module].subModules)
    /\ stack' = Append(stack, Activation(modules[Top.module].subModules[Top.subModule],
                                         Top.ignoreTypeAndConstantErrors))
    /\ UNCHANGED <<modules, result, lastPass, folded, heart, parser, generator, execution, wrapper, loader>>

\* for (auto& subModule : module.getSubModules())
\*     runStats.add (resolutionPass.run (ignoreTypeAndConstantErrors));
RunSubModule ==
    /\ stack # <<>> /\ Top.pc = "subModules"
    /\ Top.subModule <= Len(modules[Top.module].subModules)
    /\ stack' = Append(stack, Activation(modules[Top.module].subModules[Top.subModule],
                                         Top.ignoreTypeAndConstantErrors))
    /\ UNCHANGED <<modules, result, lastPass, folded, heart, parser, generator, execution, wrapper, loader>>

SubModulesDone ==
    /\ stack # <<>> /\ Top.pc = "subModules"
    /\ Top.subModule > Len(modules[Top.module].subModules)
    /\ Goto("endOfIteration")
    /\ UNCHANGED <<modules, result, lastPass, folded, heart, parser, generator, execution, wrapper, loader>>

\* a break that does not look at the failures
BreakWithoutFailures_Unconditional ==
    /\ stack # <<>> /\ Top.pc = "endOfIteration"
    /\ Goto("FullResolver")
    /\ UNCHANGED <<modules, result, lastPass, folded, heart, parser, generator, execution, wrapper, loader>>

\* if (runStats.numFailures == 0) break;
BreakWithoutFailures ==
    /\ stack # <<>> /\ Top.pc = "endOfIteration"
    /\ Top.runStats.numFailures = 0
    /\ Goto("FullResolver")
    /\ UNCHANGED <<modules, result, lastPass, folded, heart, parser, generator, execution, wrapper, loader>>

\* an early return that marks the module as resolved
ReturnUnresolved_MarkingResolved ==
    /\ stack # <<>> /\ Top.pc = "endOfIteration"
    /\ Top.runStats.numFailures # 0 /\ Top.runStats.numReplaced = 0
    /\ Top.ignoreTypeAndConstantErrors
    /\ modules' = [modules EXCEPT ![Top.module].isFullyResolved = TRUE]
    /\ Return(Top.runStats, FALSE)
    /\ UNCHANGED <<lastPass, folded, heart, parser, generator, execution, wrapper, loader>>

\* if (runStats.numReplaced == 0) { if (ignoreTypeAndConstantErrors) return runStats;
ReturnUnresolved ==
    /\ stack # <<>> /\ Top.pc = "endOfIteration"
    /\ Top.runStats.numFailures # 0 /\ Top.runStats.numReplaced = 0
    /\ Top.ignoreTypeAndConstantErrors
    /\ Return(Top.runStats, FALSE)
    /\ UNCHANGED <<modules, lastPass, folded, heart, parser, generator, execution, wrapper, loader>>

\* ... otherwise the passes run again with ignoreErrors = false
BeginErrorPasses ==
    /\ stack # <<>> /\ Top.pc = "endOfIteration"
    /\ Top.runStats.numFailures # 0 /\ Top.runStats.numReplaced = 0
    /\ ~ Top.ignoreTypeAndConstantErrors
    /\ Goto("reportFunctionResolver")
    /\ UNCHANGED <<modules, result, lastPass, folded, heart, parser, generator, execution, wrapper, loader>>

\* a loop that goes round again whenever failures are left
NextIteration_WithoutProgress ==
    /\ stack # <<>> /\ Top.pc = "endOfIteration"
    /\ Top.runStats.numFailures # 0
    /\ Goto("loop")
    /\ UNCHANGED <<modules, result, lastPass, folded, heart, parser, generator, execution, wrapper, loader>>

\* the end of the body of for (;;): failures and replacements, go round again
NextIteration ==
    /\ stack # <<>> /\ Top.pc = "endOfIteration"
    /\ Top.runStats.numFailures # 0 /\ Top.runStats.numReplaced # 0
    /\ Goto("loop")
    /\ UNCHANGED <<modules, result, lastPass, folded, heart, parser, generator, execution, wrapper, loader>>

\* error passes that begin with the QualifiedIdentifierResolver
ReportFunctionResolver_Skipped ==
    /\ stack # <<>> /\ Top.pc = "reportFunctionResolver"
    /\ Goto("reportQualifiedIdentifierResolver")
    /\ UNCHANGED <<modules, result, lastPass, folded, heart, parser, generator, execution, wrapper, loader>>

ReportFunctionResolver ==
    tryPass("FunctionResolver", FALSE, "reportFunctionResolver", "reportQualifiedIdentifierResolver")

ReportQualifiedIdentifierResolver ==
    tryPass("QualifiedIdentifierResolver", FALSE, "reportQualifiedIdentifierResolver",
            "reportTypeResolver")

ReportTypeResolver ==
    tryPass("TypeResolver", FALSE, "reportTypeResolver", "reportConvertStreamOperations")

ReportConvertStreamOperations ==
    tryPass("ConvertStreamOperations", FALSE, "reportConvertStreamOperations",
            "reportGenericFunctionResolver")

ReportGenericFunctionResolver ==
    tryPass("GenericFunctionResolver", FALSE, "reportGenericFunctionResolver", "FullResolver")

\* a run that marks the module as resolved before the FullResolver walks it
RunFullResolver_MarkingBeforeWalk ==
    /\ stack # <<>> /\ Top.pc = "FullResolver"
    /\ modules' = [modules EXCEPT ![Top.module].isFullyResolved = TRUE]
    /\ LET resolved(e) == IF e # "" THEN Throw(e) ELSE Return(Top.runStats, FALSE)
       IN resolved(FullResolver(modules, Top.module))
    /\ UNCHANGED <<lastPass, folded, heart, parser, generator, execution, wrapper, loader>>

\* FullResolver (*this).visitObject (module); module.isFullyResolved = true; return runStats;
RunFullResolver ==
    /\ stack # <<>> /\ Top.pc = "FullResolver"
    /\ LET resolved(e) ==
               IF e # ""
               THEN Throw(e) /\ UNCHANGED modules
               ELSE /\ modules' = [modules EXCEPT ![Top.module].isFullyResolved = TRUE]
                    /\ Return(Top.runStats, FALSE)
       IN resolved(FullResolver(modules, Top.module))
    /\ UNCHANGED <<lastPass, folded, heart, parser, generator, execution, wrapper, loader>>

\* ---------------------------------------------------------- HEARTGenerator
\* HEARTGenerator::visit (VariableDeclaration) while parsingStateVariables:
\* the record the declaration gets in the HEART module ("none" if it gets none)
stateVariableRole(v) ==
    IF v.isExternal THEN "external"
    ELSE IF ~ (v.type.isConst \/ (v.numWrites = 0 /\ (isPrimitive(v.type) \/ isBoundedInt(v.type))))
        THEN "state"
    ELSE "none"

\* HEARTGenerator::visit (Processor): the stateVariables of the HEART module
generateStateVariables(m) ==
    LET roles == [i \in DOMAIN m.stateVariables |->
                     [name |-> m.stateVariables[i].name,
                      role |-> stateVariableRole(m.stateVariables[i])]]
        materialised(r) == r.role # "none"
    IN SelectSeq(roles, materialised)

addStateVariableInitialisationCode_ZeroingExternals(m) ==
    LET generated(v) == stateVariableRole(v) # "none"
        variables == SelectSeq(m.stateVariables, generated)
    IN [i \in DOMAIN variables |->
           [target |-> variables[i].name,
            value |-> IF variables[i].initialValue # Null THEN variables[i].initialValue
                      ELSE [kind |-> "zero"]]]

\* HEARTGenerator::addStateVariableInitialisationCode: the assignments of the
\* init function, to the variables that have a generatedVariable: the
\* initial value, or zero (kind "zero") for a variable without one that is
\* not external
addStateVariableInitialisationCode(m) ==
    LET generated(v) == stateVariableRole(v) # "none"
        assigned(v) == v.initialValue # Null \/ ~ v.isExternal
        variables == SelectSeq(SelectSeq(m.stateVariables, generated), assigned)
    IN [i \in DOMAIN variables |->
           [target |-> variables[i].name,
            value |-> IF variables[i].initialValue # Null THEN variables[i].initialValue
                      ELSE [kind |-> "zero"]]]

RECURSIVE getTopLevelWriteToEndpoint(_, _)
RECURSIVE getTopLevelWriteToEndpoint_Appending(_, _)
getTopLevelWriteToEndpoint_Appending(ws, values) ==
    LET appended == values \o <<ws.value>>
    IN IF ws.target.kind = "WriteToEndpoint"
       THEN getTopLevelWriteToEndpoint_Appending(ws.target, appended)
       ELSE [topLevelWrite |-> ws, values |-> appended]

\* HEARTGenerator::getTopLevelWriteToEndpoint: the innermost write of a chain
\* and the values of the chain, each inserted in front of the ones of the
\* writes around it
getTopLevelWriteToEndpoint(ws, values) ==
    LET inserted == <<ws.value>> \o values
    IN IF ws.target.kind = "WriteToEndpoint"
       THEN getTopLevelWriteToEndpoint(ws.target, inserted)
       ELSE [topLevelWrite |-> ws, values |-> inserted]

\* HEARTGenerator::createSeriesOfWrites: one WriteStream statement per value
\* (a target that is no output is the error targetMustBeOutput)
createSeriesOfWrites(target, values) ==
    IF target.kind = "OutputEndpointRef"
    THEN [i \in DOMAIN values |->
             [statement |-> "WriteStream", target |-> target.output, value |-> values[i]]]
    ELSE <<[statement |-> "targetMustBeOutput"]>>

\* HEARTGenerator::generateFunctions: for every non-generic function, in
\* their order, the statements each WriteToEndpoint statement of its block
\* is lowered to
generateFunctions(m) ==
    LET write(n) ==
            IF n.kind = "WriteToEndpoint"
            THEN LET series(w) == createSeriesOfWrites(w.topLevelWrite.target, w.values)
                 IN series(getTopLevelWriteToEndpoint(n, <<>>))
            ELSE <<>>
        generateFunction(f) ==
            [name |-> f.name, source |-> f.source.block,
             writes |-> [j \in DOMAIN f.block |-> write(f.block[j])]]
        functions == SelectSeq(m.functions, LAMBDA f : ~ isGeneric(f))
    IN [i \in DOMAIN functions |-> generateFunction(functions[i])]

\* the compiler lowers a fully resolved module to HEART
GenerateHEART(m) ==
    /\ stack = <<>> /\ result.status # "thrown"
    /\ modules[m].isFullyResolved
    /\ ~ heart[m].generated
    /\ heart' = [heart EXCEPT ![m] = [generated |-> TRUE,
                                      stateVariables |-> generateStateVariables(modules[m]),
                                      init |-> addStateVariableInitialisationCode(modules[m]),
                                      functions |-> generateFunctions(modules[m])]]
    /\ UNCHANGED <<modules, stack, result, lastPass, folded, parser, generator, execution, wrapper, loader>>

\* ------------------------------------------------------------------- Next
Next ==
    \/ \E ignoreTypeAndConstantErrors \in BOOLEAN : Run(ignoreTypeAndConstantErrors)
    \/ RunEntry
    \/ BeginIteration
    \/ TryQualifiedIdentifierResolver
    \/ TryTypeResolver
    \/ TryConvertStreamOperations
    \/ RebuildUseCountsBeforeFunctionResolver
    \/ TryFunctionResolver
    \/ TryConstantFolder
    \/ RebuildUseCountsAfterConstantFolder
    \/ TryGenericFunctionResolver
    \/ SkipGenericFunctionResolver
    \/ RunSubModule
    \/ SubModulesDone
    \/ BreakWithoutFailures
    \/ ReturnUnresolved
    \/ BeginErrorPasses
    \/ NextIteration
    \/ ReportFunctionResolver
    \/ ReportQualifiedIdentifierResolver
    \/ ReportTypeResolver
    \/ ReportConvertStreamOperations
    \/ ReportGenericFunctionResolver
    \/ RunFullResolver
    \/ \E m \in DOMAIN modules : GenerateHEART(m)

Spec == Init /\ [][Next]_vars

\* ------------------------------------------------ properties of the driver
\* the trees of function f: its parameter types and its statements
FunctionTrees(f) ==
    { f.parameters[j].declaredType : j \in DOMAIN f.parameters }
      \cup { f.block[j] : j \in DOMAIN f.block }

\* the nodes of module m, of every function or of the non-generic ones only
NodesOf(m, withGenericFunctions) ==
    UNION { SubNodes(t) :
            t \in ({ m.stateVariables[i].initialValue : i \in DOMAIN m.stateVariables } \ {Null})
                    \cup UNION { FunctionTrees(m.functions[i]) :
                                 i \in { k \in DOMAIN m.functions :
                                           withGenericFunctions \/ ~ isGeneric(m.functions[k]) } } }

\* no placeholder among the nodes, and every reference has its target
NoPlaceholders(nodes) ==
    \A n \in nodes :
        /\ n.kind \notin {"QualifiedIdentifier", "CallOrCast"}
        /\ n.kind = "VariableRef" => VariableExists(modules, n.variable)
        /\ n.kind = "FunctionCall" => FunctionExists(modules, n.targetFunction)

\* C1 as stated: in a module marked isFullyResolved no QualifiedIdentifier and
\* no CallOrCast node remains anywhere, every VariableRef names a declared
\* variable and every FunctionCall an existing function.
C1_AsStated ==
    \A m \in DOMAIN modules :
        modules[m].isFullyResolved => NoPlaceholders(NodesOf(modules[m], TRUE))

\* C1 amended: in a module marked isFullyResolved no QualifiedIdentifier and no
\* CallOrCast node remains outside the generic functions, and there every
\* VariableRef names a declared variable and every FunctionCall an existing
\* function; the generic functions themselves keep their placeholders.
C1_Resolved ==
    \A m \in DOMAIN modules :
        modules[m].isFullyResolved => NoPlaceholders(NodesOf(modules[m], FALSE))

\* a fully resolved module with a bound call, and a generic function that
\* still holds a placeholder
C1_Witness ==
    /\ modules[1].isFullyResolved
    /\ \E n \in NodesOf(modules[1], FALSE) : n.kind = "FunctionCall"
    /\ \E n \in NodesOf(modules[1], TRUE) : n.kind = "QualifiedIdentifier"

\* the activation on top is at the end of an iteration of the loop
AtEndOfIteration == stack # <<>> /\ Top.pc = "endOfIteration"

\* ... and this step takes it back to the head of the loop
LoopsBack ==
    /\ AtEndOfIteration
    /\ Len(stack') = Len(stack)
    /\ stack'[Len(stack')].pc = "loop"

\* ... and this step takes it out of the loop to the FullResolver
BreaksToFullResolver ==
    /\ AtEndOfIteration
    /\ Len(stack') = Len(stack)
    /\ stack'[Len(stack')].pc = "FullResolver"

\* C2 as stated: the driver leaves its loop for the FullResolver only after
\* an iteration that made zero replacements.
C2_AsStated == [][BreaksToFullResolver => Top.runStats.numReplaced = 0]_vars

\* C2 amended: the driver leaves its loop only after an iteration that
\* counted zero failures or made zero replacements; an iteration with zero
\* failures ends the loop even if it made replacements.
C2_LeavesLoop ==
    [][(AtEndOfIteration /\ ~ LoopsBack)
          => (Top.runStats.numFailures = 0 \/ Top.runStats.numReplaced = 0)]_vars

\* the loop was left after an iteration with replacements and no failures
C2_Witness ==
    /\ stack # <<>> /\ Top.pc = "FullResolver"
    /\ Top.runStats.numFailures = 0 /\ Top.runStats.numReplaced > 0

\* C3: another iteration of the loop starts only if the iteration just
\* finished made at least one replacement.
C3_LoopsOnProgress == [][LoopsBack => Top.runStats.numReplaced > 0]_vars

\* an activation is back at the head of the loop after a whole iteration
C3_Witness ==
    /\ stack # <<>> /\ Top.pc = "loop"
    /\ Top.passes # <<>> /\ Top.runStats.numReplaced > 0

\* the activation on top has just been entered on a fully resolved module
EntersResolved == stack # <<>> /\ Top.pc = "run" /\ modules[Top.module].isFullyResolved

\* C4: run on a module whose isFullyResolved is set returns zero failures and
\* zero replacements at once, runs no sub-pass and changes nothing.
C4_Idempotent ==
    [][EntersResolved
          => /\ modules' = modules /\ lastPass' = lastPass /\ folded' = folded
             /\ Len(stack') = Len(stack) - 1
             /\ IF Len(stack) = 1
                    THEN result' = [status |-> "returned", error |-> "",
                                    runStats |-> NoStats, skipped |-> TRUE]
                    ELSE /\ stack'[Len(stack')].runStats = stack[Len(stack')].runStats
                         /\ result' = result]_vars

\* run was called again on the resolved root module and returned at once
C4_Witness ==
    /\ stack = <<>> /\ result.status = "returned" /\ result.skipped
    /\ modules[1].isFullyResolved

\* the order of the sub-passes of one iteration
PassOrder ==
    <<"QualifiedIdentifierResolver", "TypeResolver", "ConvertStreamOperations",
      "rebuildVariableUseCounts", "FunctionResolver", "ConstantFolder",
      "rebuildVariableUseCounts">>

\* the sub-passes the activation has run with ignoreErrors = true in its
\* current iteration
IgnoringPasses(activation) == SelectSeq(activation.passes, LAMBDA e : e.ignoreErrors)

PastTheSubPasses(activation) ==
    activation.pc \in {"subModules", "endOfIteration", "FullResolver", "reportFunctionResolver",
                       "reportQualifiedIdentifierResolver", "reportTypeResolver",
                       "reportConvertStreamOperations", "reportGenericFunctionResolver"}

\* C5: every iteration runs QualifiedIdentifierResolver, TypeResolver,
\* ConvertStreamOperations, a use-count rebuild, FunctionResolver,
\* ConstantFolder and a use-count rebuild in this order, skipping none, and
\* then GenericFunctionResolver if and only if these made zero replacements.
C5_PassOrder ==
    \A i \in DOMAIN stack :
        LET L == IgnoringPasses(stack[i]) IN
        /\ Len(L) <= Len(PassOrder) + 1
        /\ \A k \in DOMAIN L : k <= Len(PassOrder) => L[k].pass = PassOrder[k]
        /\ Len(L) = Len(PassOrder) + 1
              => L[Len(L)].pass = "GenericFunctionResolver" /\ L[Len(L)].before = 0
        /\ PastTheSubPasses(stack[i])
              => /\ Len(L) >= Len(PassOrder)
                 /\ Len(L) = Len(PassOrder) => L[Len(L)].after > 0

\* an iteration that ended with the GenericFunctionResolver
C5_Witness ==
    /\ AtEndOfIteration
    /\ Len(IgnoringPasses(Top)) = Len(PassOrder) + 1

\* the errors that report a node the resolver could not resolve
ResolutionFailures ==
    {"unresolvedSymbol", "ambiguousSymbol", "unknownFunction", "noMatchForFunctionCall",
     "ambiguousFunctionCall", "duplicateFunction", "cannotCastType",
     "failedToResolveGeneric", "cannotResolveSourceType"}

RECURSIVE numNodes(_, _)
numNodes(n, kind) ==
    (IF n.kind = kind THEN 1 ELSE 0)
      + SumSeq([i \in DOMAIN Kids(n) |-> numNodes(Kids(n)[i], kind)])

\* the QualifiedIdentifier nodes the QualifiedIdentifierResolver meets in m
numIdentifiers(m) ==
    LET perFunction(f) ==
            IF isGeneric(f) THEN 0
            ELSE SumSeq([j \in DOMAIN f.parameters |->
                            numNodes(f.parameters[j].declaredType, "QualifiedIdentifier")])
                   + SumSeq([j \in DOMAIN f.block |-> numNodes(f.block[j], "QualifiedIdentifier")])
    IN SumSeq([i \in DOMAIN m.stateVariables |->
                  numNodes(m.stateVariables[i].initialValue, "QualifiedIdentifier")])
         + SumSeq([i \in DOMAIN m.functions |-> perFunction(m.functions[i])])

\* C6 as stated: a sub-pass that runs with ignoreErrors = true never throws.
C6_AsStated == ~ (lastPass.ignoreErrors /\ lastPass.error # "")

\* C6 amended: a sub-pass that runs with ignoreErrors = true never throws for
\* a node it cannot resolve; it counts the node in numFails and leaves it in
\* place (after the QualifiedIdentifierResolver, numFails is the number of
\* identifiers left).  Other errors, such as a constant division by zero or
\* a malformed advance(), are thrown even then.
C6_FailuresCounted ==
    /\ (lastPass.ignoreErrors /\ lastPass.error # "") => lastPass.error \notin ResolutionFailures
    /\ (stack # <<>> /\ Top.pc = "TypeResolver")
          => lastPass.numFails = numIdentifiers(modules[Top.module])

\* the QualifiedIdentifierResolver has counted an identifier it left in place
C6_Witness ==
    /\ stack # <<>> /\ Top.pc = "TypeResolver"
    /\ lastPass.ignoreErrors /\ lastPass.numFails > 0

\* ------------------------------------------- lowering the state variables
\* the declarations of the state variable x:  T x = T();  for the types T,
\* let x = 1;  int x;  and  external int x;
VariableShapes ==
    { VariableDeclaration("x", Type(k), FALSE, CastCall(Type(k), <<>>)) :
        k \in {"int32", "wrap", "vector", "struct", "array"} }
      \cup { VariableDeclaration("x", ConstType("int32"), FALSE, Literal(1)),
             VariableDeclaration("x", Type("int32"), FALSE, Null),
             VariableDeclaration("x", ConstType("int32"), TRUE, Null) }

\* the statements of run() that read and write x
LoweringStatements ==
    << StreamWrite(QualifiedIdentifier("x")),                  \* out << x;
       CallOrCast("f", <<QualifiedIdentifier("x")>>),          \* f (x);
       CallOrCast("g", <<Literal(1)>>),                        \* g (1);
       BinaryOperator("leftShift", StreamWrite(Literal(1)), Literal(2)),    \* out << 1 << 2;
       BinaryOperator("leftShift",                                          \* out << x << 1 << 2;
           BinaryOperator("leftShift", StreamWrite(QualifiedIdentifier("x")), Literal(1)),
           Literal(2)) >>

\* the declarations of a second state variable:  struct y = struct();
\* struct y;  and  external int y;
SecondVariableShapes ==
    { VariableDeclaration("y", Type("struct"), FALSE, CastCall(Type("struct"), <<>>)),
      VariableDeclaration("y", Type("struct"), FALSE, Null),
      VariableDeclaration("y", ConstType("int32"), TRUE, Null) }

LoweringPrograms ==
    { [Program(x, body, generic, <<StreamWrite(Literal(1))>>) EXCEPT ![1].stateVariables = <<x, y>>] :
        x \in VariableShapes, y \in SecondVariableShapes,
        body \in Bodies(LoweringStatements, MaxStatements),
        generic \in { <<g>> : g \in GenericShapes } \cup { <<>> } }

InitLowering ==
    /\ modules \in LoweringPrograms
    /\ stack = <<>>
    /\ result = NoResult
    /\ lastPass = NoPass
    /\ folded = {}
    /\ heart = [m \in DOMAIN modules |-> NoHeart]
    /\ parser = NoParser
    /\ generator = NoGenerator
    /\ execution = NoExecution
    /\ wrapper = NoWrapper
    /\ loader = NoLoader

SpecLowering == InitLowering /\ [][Next]_vars

\* the variables that have a state-variable record in the HEART module of m
stateVariablesOf(m) ==
    { heart[m].stateVariables[i].name : i \in DOMAIN heart[m].stateVariables }

\* C10: a state variable whose references the ConstantFolder has replaced by
\* a constant has no state-variable record in the generated HEART module,
\* whatever its type.
C10_FoldedNotMaterialised ==
    \A m \in DOMAIN modules :
        heart[m].generated => folded \cap stateVariablesOf(m) = {}

\* ------------------------------------------------- lowering the writes
\* the parsed statement n is a chained write  out << v1 << ... << vn
RECURSIVE isChainedWrite(_)
isChainedWrite(n) ==
    /\ n.kind = "BinaryOperator" /\ n.operation = "leftShift"
    /\ n.lhs = QualifiedIdentifier("out") \/ isChainedWrite(n.lhs)

\* the values v1 .. vn of the chained write n, left to right
RECURSIVE chainedValues(_)
chainedValues(n) ==
    IF n = QualifiedIdentifier("out") THEN <<>> ELSE Append(chainedValues(n.lhs), n.rhs)

\* the HEART statement w writes the parsed value v to the stream out: a
\* literal as it is, the variable x as a reference to it or as the constant
\* it was folded to
writesValue(w, v) ==
    /\ w.statement = "WriteStream" /\ w.target = "out"
    /\ \/ v.kind = "Constant" /\ w.value = v
       \/ v = QualifiedIdentifier("x") /\ w.value = VariableRef("x")
       \/ v = QualifiedIdentifier("x") /\ "x" \in folded /\ w.value.kind = "Constant"

\* the chained writes of the generated functions of module m: <<i, j>> for
\* statement j of function i
chainedWritesOf(m) ==
    { ij \in UNION { { <<i, j>> : j \in DOMAIN heart[m].functions[i].source } :
                       i \in DOMAIN heart[m].functions } :
        isChainedWrite(heart[m].functions[ij[1]].source[ij[2]]) }

\* C11: a chained write  out << v1 << ... << vn  is lowered to exactly n
\* WriteStream statements, all of them to out, that carry v1 .. vn in this
\* order: no value is dropped, duplicated or reordered.
C11_ChainedWritesInOrder ==
    \A m \in DOMAIN modules : \A ij \in chainedWritesOf(m) :
        LET values == chainedValues(heart[m].functions[ij[1]].source[ij[2]])
            writes == heart[m].functions[ij[1]].writes[ij[2]]
        IN /\ Len(writes) = Len(values)
           /\ \A k \in DOMAIN values : writesValue(writes[k], values[k])

\* a chain of three values, the first of them a variable, has been lowered
C11_Witness ==
    \E m \in DOMAIN modules : \E ij \in chainedWritesOf(m) :
        /\ Len(chainedValues(heart[m].functions[ij[1]].source[ij[2]])) = 3
        /\ heart[m].functions[ij[1]].writes[ij[2]][1].value = VariableRef("x")

\* ------------------------------------------------- the init function
\* the state variables of module m that are materialised in its HEART
\* module and are not external, in the order of their declarations
MaterialisedVariables(m) ==
    LET materialised(v) ==
            \E i \in DOMAIN heart[m].stateVariables :
                heart[m].stateVariables[i] = [name |-> v.name, role |-> "state"]
    IN SelectSeq(modules[m].stateVariables, materialised)

\* C16: the init function assigns every materialised non-external state
\* variable exactly once, in the order of the declarations: its declared
\* initial value when it has one, zero otherwise; it assigns nothing to an
\* external variable and nothing to a variable that is not materialised.
C16_InitFunction ==
    \A m \in DOMAIN modules :
        heart[m].generated =>
            /\ Len(heart[m].init) = Len(MaterialisedVariables(m))
            /\ \A i \in DOMAIN heart[m].init :
                   LET v == MaterialisedVariables(m)[i]
                   IN /\ heart[m].init[i].target = v.name
                      /\ heart[m].init[i].value =
                            IF v.initialValue # Null THEN v.initialValue ELSE [kind |-> "zero"]

\* two variables are initialised, the first to zero and the second to its
\* initial value, in a module with no external variable
C16_Witness ==
    \E m \in DOMAIN modules :
        /\ heart[m].generated /\ Len(heart[m].init) = 2
        /\ heart[m].init[1].value.kind = "zero" /\ heart[m].init[2].value.kind # "zero"

\* an external variable and a variable that is not materialised stand beside
\* an initialised one
C16_WitnessExternal ==
    \E m \in DOMAIN modules :
        /\ heart[m].generated /\ Len(heart[m].init) = 1
        /\ Len(heart[m].stateVariables) = 2

\* ------------------------------------------ sub-modules and error passes
\* this step enters the driver on a sub-module of the innermost activation
EntersSubModule == stack # <<>> /\ Len(stack') = Len(stack) + 1

\* this step runs a sub-pass of the innermost activation with ignoreErrors =
\* true, and it is not the first of its iteration
RunsNextSubPass ==
    /\ stack # <<>> /\ Len(stack') = Len(stack)
    /\ Top.passes # <<>>
    /\ Len(stack'[Len(stack')].passes) = Len(Top.passes) + 1
    /\ stack'[Len(stack')].passes[Len(Top.passes) + 1].ignoreErrors

\* the loop over the sub-modules of the activation has resolved them all
SubModulesResolved(activation) ==
    activation.subModule > Len(modules[activation.module].subModules)

\* C18 as stated: after each sub-pass has run on a module, its sub-modules
\* are resolved before the next sub-pass of the module runs.
C18_AsStated == [][RunsNextSubPass => SubModulesResolved(Top)]_vars

\* C18 amended: the sub-modules of a module are resolved, recursively and
\* with the same driver and the same argument, once in every iteration, in
\* their order, after all the sub-passes of the iteration have run on the
\* module and before the driver looks at the failures; none is resolved
\* between two sub-passes of the module.
C18_SubModulesAfterSubPasses ==
    [][/\ EntersSubModule =>
            /\ Top.pc = "subModules"
            /\ Len(IgnoringPasses(Top)) >= Len(PassOrder)
            /\ stack'[Len(stack')].module = modules[Top.module].subModules[Top.subModule]
            /\ stack'[Len(stack')].ignoreTypeAndConstantErrors = Top.ignoreTypeAndConstantErrors
       /\ RunsNextSubPass => Top.subModule = 1
       /\ AtEndOfIteration => SubModulesResolved(Top)]_vars

\* the driver runs on a sub-module after all the sub-passes of its parent
C18_Witness ==
    /\ Len(stack) = 2 /\ stack[1].pc = "subModules"
    /\ Len(IgnoringPasses(stack[1])) = Len(PassOrder) + 1
    /\ stack[2].pc = "ConstantFolder"

\* the sub-passes the activation has run with ignoreErrors = false
ReportingPasses(activation) ==
    LET reporting == SelectSeq(activation.passes, LAMBDA e : ~ e.ignoreErrors)
    IN [k \in DOMAIN reporting |-> reporting[k].pass]

\* the order of the passes that run with ignoreErrors = false
ErrorPassOrder ==
    <<"FunctionResolver", "QualifiedIdentifierResolver", "TypeResolver",
      "ConvertStreamOperations", "GenericFunctionResolver">>

\* C19 as stated: the passes that run with ignoreErrors = false are the
\* sub-passes of a normal iteration, in the same order.
C19_AsStated ==
    \A i \in DOMAIN stack : \A k \in DOMAIN ReportingPasses(stack[i]) :
        ReportingPasses(stack[i])[k] = (PassOrder \o <<"GenericFunctionResolver">>)[k]

\* C19 amended: when an iteration ends with failures and without
\* replacements and errors are not ignored, the driver runs with
\* ignoreErrors = false FunctionResolver, QualifiedIdentifierResolver,
\* TypeResolver, ConvertStreamOperations and GenericFunctionResolver, in
\* this order, before the FullResolver walk: the FunctionResolver comes
\* first, and neither the ConstantFolder nor a use-count rebuild runs again.
C19_ErrorPasses ==
    \A i \in DOMAIN stack :
        LET L == ReportingPasses(stack[i]) IN
        /\ Len(L) <= Len(ErrorPassOrder)
        /\ L = SubSeq(ErrorPassOrder, 1, Len(L))
        /\ L # <<>> =>
              /\ ~ stack[i].ignoreTypeAndConstantErrors
              /\ stack[i].runStats.numFailures > 0
              /\ SubModulesResolved(stack[i])
        /\ stack[i].pc = "FullResolver" =>
              \/ L = ErrorPassOrder
              \/ L = <<>> /\ stack[i].runStats.numFailures = 0
        /\ stack[i].pc = "reportFunctionResolver" =>
              /\ L = <<>> /\ ~ stack[i].ignoreTypeAndConstantErrors
              /\ stack[i].runStats.numFailures > 0 /\ stack[i].runStats.numReplaced = 0

\* the five passes have run with ignoreErrors = false and none has thrown
C19_Witness ==
    /\ stack # <<>> /\ Top.pc = "FullResolver"
    /\ ReportingPasses(Top) = ErrorPassOrder

\* ---------------------------------------------------------- the use counts
\* rebuildVariableUseCounts has just run on the module of the innermost
\* activation
UseCountsRebuilt ==
    stack # <<>> /\ Top.pc \in {"FunctionResolver", "GenericFunctionResolver"}

\* the increments and decrements in module m whose target is the variable
IncDecSites(m, name) ==
    LET inBlock(block) ==
            Len(SelectSeq(block, LAMBDA n : n = PreOrPostIncOrDec(VariableRef(name))))
    IN SumSeq([i \in DOMAIN modules[m].functions |-> inBlock(modules[m].functions[i].block)])

\* C15: after rebuildVariableUseCounts, every variable that is the target
\* of an increment or decrement has been counted as read and as written for
\* that site: each site adds one to numReads and one to numWrites.
C15_IncDecReadAndWritten ==
    UseCountsRebuilt =>
        \A i \in DOMAIN modules[Top.module].stateVariables :
            LET v == modules[Top.module].stateVariables[i]
            IN /\ v.numWrites >= IncDecSites(Top.module, v.name)
               /\ v.numReads >= IncDecSites(Top.module, v.name)

\* the node n writes the variable: it assigns to it, increments or
\* decrements it, or passes it to a call that is still unresolved or to a
\* reference parameter
RECURSIVE Writes(_, _, _)
Writes(ms, n, name) ==
    LET byReference(i) ==
            LET declaredType == GetFunction(ms, n.targetFunction).parameters[i].declaredType
            IN ~ isResolvedAsType(declaredType) \/ resolveAsType(declaredType).isReference
    IN \/ n.kind \in {"Assignment", "PreOrPostIncOrDec"} /\ n.target = VariableRef(name)
       \/ n.kind = "CallOrCast" /\ \E i \in DOMAIN n.arguments : n.arguments[i] = VariableRef(name)
       \/ n.kind = "FunctionCall"
            /\ \E i \in DOMAIN n.arguments : n.arguments[i] = VariableRef(name) /\ byReference(i)
       \/ \E i \in DOMAIN Kids(n) : Writes(ms, Kids(n)[i], name)

\* some function of module m writes the variable
WrittenIn(ms, m, name) ==
    \E i \in DOMAIN ms[m].functions : \E j \in DOMAIN ms[m].functions[i].block :
        Writes(ms, ms[m].functions[i].block[j], name)

MaxFunctions == 2

RECURSIVE checkOverallStructure(_, _)

\* SanityCheckPass::checkOverallStructureOfProcessor: the error it throws for
\* the processor or graph p ("" if none)
checkOverallStructureOfProcessor(p) ==
    LET wrong(f) == isRunFunction(f) /\ (f.returnType # "void" \/ f.parameters # <<>>)
        wrongRunFunctions == SelectSeq(p.functions, wrong)
        numRunFunctions == Len(SelectSeq(p.functions, isRunFunction))
    IN IF p.outputs = <<>> THEN "processorNeedsAnOutput"
       ELSE IF p.kind # "processor" THEN ""
       ELSE IF wrongRunFunctions # <<>>
         THEN IF wrongRunFunctions[1].returnType # "void" THEN "runFunctionMustBeVoid"
              ELSE "runFunctionHasParams"
       ELSE IF numRunFunctions = 0 THEN "processorNeedsRunFunction"
       ELSE IF numRunFunctions > 1 THEN "multipleRunFunctions"
       ELSE ""

checkOverallStructure_TopLevelOnly(ms, m) ==
    IF ms[m].kind \in {"processor", "graph"} THEN checkOverallStructureOfProcessor(ms[m]) ELSE ""

\* SanityCheckPass::checkOverallStructure: the first error of the module m
\* and then of its sub-modules, in their order
checkOverallStructure(ms, m) ==
    LET own == IF ms[m].kind \in {"processor", "graph"}
               THEN checkOverallStructureOfProcessor(ms[m]) ELSE ""
        failed(sub) == checkOverallStructure(ms, sub) # ""
        failing == SelectSeq(ms[m].subModules, failed)
    IN IF own # "" THEN own
       ELSE IF failing # <<>> THEN checkOverallStructure(ms, failing[1])
       ELSE ""

\* soul::DuplicateNameChecker: check() fails on a name it has been given before
hasDuplicates(names) == \E i, j \in DOMAIN names : i < j /\ names[i] = names[j]

\* SanityCheckPass::DuplicateNameChecker on the module m: visit (Processor)
\* visits the functions and the structs of the processor (their parameters
\* and members) and then checks the names of its scope; visit (Graph) and
\* visit (Namespace) check the names of the scope and visit nothing else
DuplicateNameChecker_visit(ms, m) ==
    LET names(items) == [i \in DOMAIN items |-> items[i].name]
        subModules == [i \in DOMAIN ms[m].subModules |-> ms[ms[m].subModules[i]].name]
        scope == CASE ms[m].kind = "processor" ->
                          ms[m].outputs \o names(ms[m].structures) \o subModules
                   [] ms[m].kind = "graph" -> ms[m].outputs
                   [] ms[m].kind = "namespace" -> names(ms[m].structures) \o subModules
        visited == ms[m].kind = "processor"
    IN IF \/ visited /\ \E i \in DOMAIN ms[m].functions :
                            hasDuplicates(ms[m].functions[i].parameters)
          \/ visited /\ \E i \in DOMAIN ms[m].structures :
                            hasDuplicates(ms[m].structures[i].members)
          \/ hasDuplicates(scope)
          \/ /\ ms[m].kind # "graph"
             /\ \E i \in DOMAIN ms[m].functions, j \in DOMAIN scope :
                    ms[m].functions[i].name = scope[j]
       THEN "nameInUse" ELSE ""

\* the sanity check named check has run on module m and thrown error ("" if
\* it returned)
Checked(check, m, error) ==
    /\ result = NoResult
    /\ result' = [NoResult EXCEPT !.status = IF error = "" THEN "returned" ELSE "thrown",
                                  !.error = error]
    /\ lastPass' = [NoPass EXCEPT !.module = m, !.pass = check]
    /\ UNCHANGED <<modules, stack, folded, heart, parser, generator, execution, wrapper, loader>>

\* SanityCheckPass::runPreResolution
RunPreResolution(m) == Checked("runPreResolution", m, checkOverallStructure(modules, m))

\* SanityCheckPass::runDuplicateNameChecker
RunDuplicateNameChecker(m) ==
    Checked("runDuplicateNameChecker", m, DuplicateNameChecker_visit(modules, m))

\* the parsed declarations: functions  void run()  int run()  void run (int a)
\* void f (int a, int a)  void f (int a, int b),  structs  S { a, a }  S { a, b },
\* processors and graphs with and without an output, and the module tree
\*   namespace N1 { <leaf> L2   namespace N3 { <leaf> L4 } }
SanityPrograms ==
    LET function(name, returnType, parameters) ==
            [name |-> name, returnType |-> returnType, parameters |-> parameters]
        functionShapes == { function("run", "void", <<>>), function("run", "int32", <<>>),
                            function("run", "void", <<"a">>), function("f", "void", <<"a", "a">>),
                            function("f", "void", <<"a", "b">>) }
        functionLists == UNION { [1..n -> functionShapes] : n \in 0..MaxFunctions }
        structLists == { <<>>, <<[name |-> "S", members |-> <<"a", "a">>]>>,
                               <<[name |-> "S", members |-> <<"a", "b">>]>> }
        module(kind, name, subs, outputs, fns, structs) ==
            [kind |-> kind, name |-> name, subModules |-> subs, outputs |-> outputs,
             functions |-> fns, structures |-> structs]
        leaves(name) ==
            { module("processor", name, <<>>, outputs, fns, structs) :
                outputs \in { <<>>, <<"out">> }, fns \in functionLists, structs \in structLists }
              \cup { module("graph", name, <<>>, outputs, <<>>, <<>>) : outputs \in { <<>>, <<"out">> } }
        simple(name) ==
            { module("processor", name, <<>>, <<"out">>, <<function("run", "void", <<>>)>>, <<>>),
              module("graph", name, <<>>, <<>>, <<>>, <<>>) }
    IN { 1 :> module("namespace", "N1", <<2, 3>>, <<>>, fns, structs) @@ 2 :> l2
           @@ 3 :> module("namespace", "N3", <<4>>, <<>>, <<>>, <<>>) @@ 4 :> l4 :
         fns \in { <<>>, <<function("f", "void", <<"a", "a">>)>>, <<function("f", "void", <<"a", "b">>)>> },
         structs \in structLists, l2 \in simple("L2"), l4 \in leaves("L4") }

InitSanityCheck ==
    /\ modules \in SanityPrograms
    /\ stack = <<>>
    /\ result = NoResult
    /\ lastPass = NoPass
    /\ folded = {}
    /\ heart = [m \in DOMAIN modules |-> NoHeart]
    /\ parser = NoParser
    /\ generator = NoGenerator
    /\ execution = NoExecution
    /\ wrapper = NoWrapper
    /\ loader = NoLoader

NextSanityCheck ==
    \/ \E m \in DOMAIN modules : RunPreResolution(m)
    \/ \E m \in DOMAIN modules : RunDuplicateNameChecker(m)

SpecSanityCheck == InitSanityCheck /\ [][NextSanityCheck]_vars

\* the processors of the tree below module m, m included
RECURSIVE ModulesBelow(_)
ModulesBelow(m) ==
    {m} \cup UNION { ModulesBelow(modules[m].subModules[i]) : i \in DOMAIN modules[m].subModules }

ProcessorsBelow(m) == { p \in ModulesBelow(m) : modules[p].kind = "processor" }

RunFunctionsOf(p) == SelectSeq(modules[p].functions, isRunFunction)

HasRun(check, m) == lastPass.pass = check /\ lastPass.module = m

\* C12: runPreResolution returns normally only if every processor of the
\* module tree, at any depth, has at least one output endpoint and exactly
\* one run function, which returns void and has no parameters; a processor
\* with no or several run functions, or with no output, raises an error.
C12_OverallStructure ==
    \A m \in DOMAIN modules :
        HasRun("runPreResolution", m) =>
            /\ result.status = "returned" =>
                    \A p \in ProcessorsBelow(m) :
                        /\ modules[p].outputs # <<>>
                        /\ Len(RunFunctionsOf(p)) = 1
                        /\ RunFunctionsOf(p)[1].returnType = "void"
                        /\ RunFunctionsOf(p)[1].parameters = <<>>
            /\ (\E p \in ProcessorsBelow(m) :
                    modules[p].outputs = <<>> \/ Len(RunFunctionsOf(p)) # 1)
                  => result.status = "thrown"

\* the check of the root has thrown for a processor two levels below it
\* that has two run functions
C12_Witness ==
    /\ HasRun("runPreResolution", 1) /\ result.error = "multipleRunFunctions"
    /\ Len(RunFunctionsOf(4)) = 2

\* C17: when runDuplicateNameChecker returns normally for a module, be it a
\* processor, a graph or a namespace, no function declared in the module has
\* two parameters of the same name and no struct declared in it has two
\* members of the same name.
C17_NoDuplicateNames ==
    \A m \in DOMAIN modules :
        HasRun("runDuplicateNameChecker", m) /\ result.status = "returned" =>
            /\ \A i \in DOMAIN modules[m].functions :
                    ~ hasDuplicates(modules[m].functions[i].parameters)
            /\ \A i \in DOMAIN modules[m].structures :
                    ~ hasDuplicates(modules[m].structures[i].members)

\* ---------------------------------------------------------- StructuralParser
\* The tokens of an expression: the operands x and 1, the binary operator +
\* and the assignment operators.
MaxOperands == 3

\* the binary operator of an in-place assignment operator
InPlaceOperators == [plusEquals |-> "add", minusEquals |-> "subtract", leftShiftEquals |-> "leftShift"]

\* StructuralParser::parseTernaryOperator: the operators that bind tighter
\* than an assignment, here operand + operand + ..., left to right
RECURSIVE parseTernaryOperator(_, _)
parseTernaryOperator(lhs, tokens) ==
    LET operand(t) == IF t = "x" THEN QualifiedIdentifier("x") ELSE Literal(1)
    IN IF lhs = Null THEN parseTernaryOperator(operand(tokens[1]), Tail(tokens))
       ELSE IF tokens # <<>> /\ tokens[1] = "plus"
         THEN parseTernaryOperator(BinaryOperator("add", lhs, operand(tokens[2])), Tail(Tail(tokens)))
       ELSE [expression |-> lhs, tokens |-> tokens, error |-> ""]

\* StructuralParser::parseExpression, with parseInPlaceOpExpression: the
\* expression, the tokens left and the error thrown ("" if none)
RECURSIVE parseExpression(_, _)
parseExpression(tokens, allowAssignment) ==
    LET parseInPlaceOpExpression(lhs, opType, rhs) ==
            IF rhs.error # "" THEN rhs
            ELSE [rhs EXCEPT !.expression =
                     Assignment(lhs.expression, BinaryOperator(opType, lhs.expression, rhs.expression))]
        assign(lhs, rhs) ==
            IF rhs.error # "" THEN rhs
            ELSE [rhs EXCEPT !.expression = Assignment(lhs.expression, rhs.expression)]
        parsed(lhs) ==
            IF lhs.tokens = <<>> THEN lhs
            ELSE IF lhs.tokens[1] \in DOMAIN InPlaceOperators
              THEN parseInPlaceOpExpression(lhs, InPlaceOperators[lhs.tokens[1]],
                                            parseExpression(Tail(lhs.tokens), FALSE))
            ELSE IF lhs.tokens[1] = "assign"
              THEN IF ~ allowAssignment
                   THEN [lhs EXCEPT !.error = "assignmentInsideExpression"]
                   ELSE assign(lhs, parseExpression(Tail(lhs.tokens), FALSE))
            ELSE lhs
    IN parsed(parseTernaryOperator(Null, tokens))

\* the parser is asked for the expression its tokens spell
ParseExpression ==
    /\ parser.status = "none"
    /\ LET parsed(e) ==
               parser' = [parser EXCEPT !.status = IF e.error = "" THEN "returned" ELSE "thrown",
                                        !.error = e.error,
                                        !.expression = IF e.error = "" THEN e.expression ELSE Null]
       IN parsed(parseExpression(parser.tokens, parser.allowAssignment))
    /\ UNCHANGED <<modules, stack, result, lastPass, folded, heart, generator, execution, wrapper, loader>>

\* the token sequences  operand (operator operand)*  of at most n operands
RECURSIVE Expressions(_)
Expressions(n) ==
    IF n = 1 THEN { <<t>> : t \in {"x", "1"} }
    ELSE Expressions(n - 1)
           \cup { e \o <<op, t>> : e \in Expressions(n - 1), t \in {"x", "1"},
                     op \in DOMAIN InPlaceOperators \cup {"assign", "plus"} }

InitParser ==
    /\ modules = <<>>
    /\ stack = <<>>
    /\ result = NoResult
    /\ lastPass = NoPass
    /\ folded = {}
    /\ heart = <<>>
    /\ parser \in { [NoParser EXCEPT !.tokens = tokens, !.allowAssignment = allowAssignment] :
                       tokens \in Expressions(MaxOperands), allowAssignment \in BOOLEAN }
    /\ generator = NoGenerator
    /\ execution = NoExecution
    /\ wrapper = NoWrapper
    /\ loader = NoLoader

SpecParser == InitParser /\ [][ParseExpression]_vars

\* C20: parseExpression with allowAssignment = false never returns an
\* Assignment node: an assignment operator at that level, plain or compound,
\* is a parse-time error.
C20_NoAssignment ==
    parser.status = "returned" /\ ~ parser.allowAssignment =>
        parser.expression.kind # "Assignment"

\* ------------------------------------------------------ overload resolution
\* the declarations a candidate of the call f (v) can have:
\*   void f (int a)   void f (float64 a)   void f (S a)
\*   void f<T> (T a)  void f<T> (int a)
CandidateShapes ==
    { Function("f", <<Parameter(ConcreteType(Type(k)))>>, <<>>, <<>>) :
        k \in {"int32", "float64", "struct"} }
      \cup { Function("f", <<Parameter(QualifiedIdentifier("T"))>>, <<"T">>, <<>>),
             Function("f", <<Parameter(ConcreteType(Type("int32")))>>, <<"T">>, <<>>) }

\* the argument of the call: 1 or 1.0f
ArgumentShapes == { Literal(1), Constant(Type("float32"), 1) }

\* module 1 declares run() { f (v); } and the candidates; its sub-module 2
\* declares one function
OverloadProgram(candidates, v) ==
    1 :> Module(0, <<2>>, <<VariableDeclaration("x", Type("int32"), FALSE, Literal(1))>>,
                <<Function("run", <<>>, <<>>, <<CallOrCast("f", <<v>>)>>)>> \o candidates)
    @@ 2 :> Module(1, <<>>, <<>>, <<Function("s", <<>>, <<>>, <<StreamWrite(Literal(1))>>)>>)

OverloadPrograms ==
    { OverloadProgram(candidates, v) :
        candidates \in NonEmptySeqOf(CandidateShapes, MaxCandidates), v \in ArgumentShapes }

InitOverload ==
    /\ modules \in OverloadPrograms
    /\ stack = <<>>
    /\ result = NoResult
    /\ lastPass = NoPass
    /\ folded = {}
    /\ heart = [m \in DOMAIN modules |-> NoHeart]
    /\ parser = NoParser
    /\ generator = NoGenerator
    /\ execution = NoExecution
    /\ wrapper = NoWrapper
    /\ loader = NoLoader

SpecOverload == InitOverload /\ [][Next]_vars

\* the call of run() in module 1, as the passes have rewritten it so far
TheCall == modules[1].functions[1].block[1]

\* the candidates the search finds for the call, with how each one matches
\* the type of the argument
Candidates ==
    LET found == FunctionsFoundIn(modules, 1, "f", 1)
    IN [i \in DOMAIN found |->
           PossibleFunction(modules, found[i], <<getResultType(modules, TheCall.arguments[1])>>)]

\* the call is bound to the function fid, or to a specialisation of it
BoundTo(fid) ==
    /\ TheCall.kind = "FunctionCall"
    /\ \/ TheCall.targetFunction = fid
       \/ GetFunction(modules, TheCall.targetFunction).orginalGenericFunction = fid

\* the FunctionResolver and the GenericFunctionResolver have both walked
\* module 1 with the call in it
ResolversHaveRun ==
    \/ modules[1].isFullyResolved
    \/ lastPass.module = 1 /\ lastPass.pass = "GenericFunctionResolver" /\ lastPass.error = ""

OverloadErrors ==
    {"ambiguousFunctionCall", "noMatchForFunctionCall", "duplicateFunction", "cannotCastType",
     "unknownFunction", "failedToResolveGeneric"}

\* C7: when exactly one of the candidates found for the call is not
\* impossible, the call is bound to it (or to its specialisation) however
\* many impossible candidates stand beside it, and no ambiguity or missing
\* match is reported.
C7_OneViableCandidate ==
    Cardinality({ i \in DOMAIN Candidates : ~ Candidates[i].isImpossible }) = 1
       => LET i == CHOOSE j \in DOMAIN Candidates : ~ Candidates[j].isImpossible
          IN /\ result.error \notin {"ambiguousFunctionCall", "noMatchForFunctionCall"}
             /\ ResolversHaveRun => BoundTo(Candidates[i].function)

SeveralWithOneExactMatch ==
    /\ Len(Candidates) > 1
    /\ countNumberOfExactMatches(Candidates) = 1

TheExactMatch == Candidates[CHOOSE j \in DOMAIN Candidates : isExactMatch(Candidates[j])].function

\* the FunctionResolver has walked module 1 with the call in it
FunctionResolverHasRun ==
    \/ modules[1].isFullyResolved
    \/ lastPass.module = 1 /\ lastPass.error = ""
         /\ lastPass.pass \in {"FunctionResolver", "ConstantFolder", "GenericFunctionResolver"}

\* C8 as stated: when several candidates are found and exactly one is an
\* exact match, the call is bound to it and no overload error is reported.
C8_AsStated ==
    SeveralWithOneExactMatch
       => /\ result.error \notin OverloadErrors
          /\ FunctionResolverHasRun => BoundTo(TheExactMatch)

\* C8 amended: when several candidates are found and exactly one is an exact
\* match, and that one is not a generic function, the FunctionResolver binds
\* the call to it, whatever the other candidates are, and no overload error
\* is reported.  (An exact match that is a generic function whose wildcard
\* no parameter uses cannot be specialised.)
C8_ExactMatchBound ==
    (SeveralWithOneExactMatch /\ ~ isGeneric(GetFunction(modules, TheExactMatch)))
       => /\ result.error \notin OverloadErrors
          /\ FunctionResolverHasRun => BoundTo(TheExactMatch)

\* the call is bound to the exact match, found beside a candidate that needs
\* a cast and a generic candidate
C8_Witness ==
    /\ SeveralWithOneExactMatch
    /\ \E i \in DOMAIN Candidates : Candidates[i].requiresCast /\ ~ Candidates[i].isImpossible
    /\ \E i \in DOMAIN Candidates : Candidates[i].requiresGeneric
    /\ BoundTo(TheExactMatch)
    /\ modules[1].isFullyResolved

\* -------------------------------------------- generic function specialisation
\* the calls of run() to the generic function g:  g (1);  g (2);  g (x);  g (1.0f);
CallShapes ==
    << CallOrCast("g", <<Literal(1)>>),
       CallOrCast("g", <<Literal(2)>>),
       CallOrCast("g", <<QualifiedIdentifier("x")>>),
       CallOrCast("g", <<Constant(Type("float32"), 1)>>) >>

\* void g<T> (T a) { x = 1; }   void g<T> (const T a) { out << 1; }
\* void g<T> (int a) {}
SpecialisedShapes ==
    GenericShapes \cup { Function("g", <<Parameter(ConcreteType(Type("int32")))>>, <<"T">>, <<>>) }

\* the body of the function of the sub-module, with or without a call to g
SubModuleCalls ==
    { <<StreamWrite(Literal(1))>>, <<CallOrCast("g", <<Literal(1)>>)>>,
      <<CallOrCast("g", <<Constant(Type("float64"), 1)>>)>> }

GenericPrograms ==
    { Program(VariableDeclaration("x", Type("int32"), FALSE, Literal(1)), body, <<g>>, subBody) :
        body \in Bodies(CallShapes, MaxCalls), g \in SpecialisedShapes, subBody \in SubModuleCalls }

InitGeneric ==
    /\ modules \in GenericPrograms
    /\ stack = <<>>
    /\ result = NoResult
    /\ lastPass = NoPass
    /\ folded = {}
    /\ heart = [m \in DOMAIN modules |-> NoHeart]
    /\ parser = NoParser
    /\ generator = NoGenerator
    /\ execution = NoExecution
    /\ wrapper = NoWrapper
    /\ loader = NoLoader

SpecGeneric == InitGeneric /\ [][Next]_vars

\* the generic functions of the program
GenericFunctions ==
    { fid \in UNION { { <<m, i>> : i \in DOMAIN modules[m].functions } : m \in DOMAIN modules } :
        isGeneric(GetFunction(modules, fid)) }

\* the specialised clones of the generic function fid in its parent scope
ClonesOf(fid) ==
    { i \in DOMAIN modules[fid[1]].functions :
        modules[fid[1]].functions[i].orginalGenericFunction = fid }

\* the resolved calls of the program that are bound to a clone of fid
ResolvedCallsTo(fid) ==
    { n \in UNION { NodesOf(modules[m], TRUE) : m \in DOMAIN modules } :
        /\ n.kind = "FunctionCall"
        /\ n.targetFunction[1] = fid[1]
        /\ n.targetFunction[2] \in ClonesOf(fid) }

\* the argument types of a call
Signature(call) == [i \in DOMAIN call.arguments |-> getResultType(modules, call.arguments[i])]

\* C9: as long as no compile error is thrown, a generic function has as many
\* specialised clones in its parent scope as the resolved calls to it have
\* distinct argument-type signatures; two such calls are bound to the same
\* clone exactly if their signatures are equal.
C9_OneClonePerSignature ==
    result.status # "thrown" =>
        \A fid \in GenericFunctions :
            /\ Cardinality(ClonesOf(fid))
                 = Cardinality({ Signature(n) : n \in ResolvedCallsTo(fid) })
            /\ \A a, b \in ResolvedCallsTo(fid) :
                  (a.targetFunction = b.targetFunction) <=> (Signature(a) = Signature(b))

\* two resolved calls with the same signature share a clone, and a call with
\* another signature has a clone of its own
C9_Witness ==
    \E fid \in GenericFunctions :
        /\ Cardinality(ClonesOf(fid)) = 2
        /\ \E a, b \in ResolvedCallsTo(fid) :
              a # b /\ Signature(a) = Signature(b) /\ a.targetFunction = b.targetFunction
        /\ modules[1].isFullyResolved

\* ------------------------------------ wildcards pinned by several parameters
\* the calls of run() to the two-parameter generic function g:
\*   g (x, 1);   g (x, 1.0);   g (1.0, x);
UnificationCalls ==
    << CallOrCast("g", <<QualifiedIdentifier("x"), Literal(1)>>),
       CallOrCast("g", <<QualifiedIdentifier("x"), Constant(Type("float64"), 1)>>),
       CallOrCast("g", <<Constant(Type("float64"), 1), QualifiedIdentifier("x")>>) >>

\* void g<T> (T& a, T b) {}   void g<T> (T a, T& b) {}   void g<T> (T a, T b) {}
UnificationShapes ==
    { Function("g", <<Parameter(TypeMetaFunction("makeReference", QualifiedIdentifier("T"))),
                      Parameter(QualifiedIdentifier("T"))>>, <<"T">>, <<>>),
      Function("g", <<Parameter(QualifiedIdentifier("T")),
                      Parameter(TypeMetaFunction("makeReference", QualifiedIdentifier("T")))>>,
               <<"T">>, <<>>),
      Function("g", <<Parameter(QualifiedIdentifier("T")), Parameter(QualifiedIdentifier("T"))>>,
               <<"T">>, <<>>) }

UnificationPrograms ==
    { Program(VariableDeclaration("x", Type("int32"), FALSE, Literal(1)), body, <<g>>, subBody) :
        body \in Bodies(UnificationCalls, MaxCalls), g \in UnificationShapes,
        subBody \in SubModuleCalls }

InitUnification ==
    /\ modules \in UnificationPrograms
    /\ stack = <<>>
    /\ result = NoResult
    /\ lastPass = NoPass
    /\ folded = {}
    /\ heart = [m \in DOMAIN modules |-> NoHeart]
    /\ parser = NoParser
    /\ generator = NoGenerator
    /\ execution = NoExecution
    /\ wrapper = NoWrapper
    /\ loader = NoLoader

SpecUnification == InitUnification /\ [][Next]_vars

\* the parameters of the generic function fid that pin the wildcard, and
\* those of them that are declared as references
PinningParameters(fid, wildcard) ==
    { i \in DOMAIN GetFunction(modules, fid).parameters :
        isValid(matchParameterAgainstWildcard(GetFunction(modules, fid).parameters[i].declaredType,
                                              Type("int32"), wildcard, FALSE).type) }

ReferencePinningParameters(fid, wildcard) ==
    { i \in PinningParameters(fid, wildcard) :
        matchParameterAgainstWildcard(GetFunction(modules, fid).parameters[i].declaredType,
                                      Type("int32"), wildcard, FALSE).anyReferencesInvolved }

\* C13: a call is bound to a specialisation of a generic function of which
\* several parameters pin the same wildcard, one of them at least being a
\* reference, only if the types of the arguments matched against these
\* parameters are all identical, wherever the reference parameter stands in
\* the declaration.
C13_ReferencesNeedIdenticalTypes ==
    \A fid \in GenericFunctions :
        \A wildcard \in { GetFunction(modules, fid).genericWildcards[k] :
                            k \in DOMAIN GetFunction(modules, fid).genericWildcards } :
            (Cardinality(PinningParameters(fid, wildcard)) > 1
               /\ ReferencePinningParameters(fid, wildcard) # {})
               => \A n \in ResolvedCallsTo(fid) :
                     \A i, j \in PinningParameters(fid, wildcard) :
                         isIdentical(removeConstIfPresent(removeReferenceIfPresent(Signature(n)[i])),
                                     removeConstIfPresent(removeReferenceIfPresent(Signature(n)[j])))

\* ----------------------------------------------------------- AudioFileToValue
MaxChannels == 3

MaxFrames == 4

\* the values the 'sourceChannel' annotation can have: none, an integer, a
\* floating point number or a string
AnnotationValues ==
    { [type |-> "invalid", value |-> 0] }
      \cup { [type |-> t, value |-> v] : t \in {"int32", "int64"}, v \in -1 .. MaxFrames + 1 }
      \cup { [type |-> t, value |-> 1] : t \in {"float64", "string"} }

isPrimitiveInteger(t) == t \in {"int32", "int64"}

\* AudioFileToValue::extractChannelIfNeeded: the buffer it leaves, and the
\* channel it asked getChannelSet for (-1 when it did not)
extractChannelIfNeeded(buffer, channelToExtract) ==
    IF channelToExtract.type # "invalid"
    THEN IF /\ isPrimitiveInteger(channelToExtract.type)
            /\ channelToExtract.value >= 0
            /\ channelToExtract.value < buffer.numFrames
         THEN [error |-> "", requested |-> channelToExtract.value,
               buffer |-> [numChannels |-> 1, numFrames |-> buffer.numFrames]]
         ELSE [error |-> "sourceChannelOutOfRange", requested |-> -1, buffer |-> buffer]
    ELSE [error |-> "", requested |-> -1, buffer |-> buffer]

\* loadAudioFileAsValue reaches extractChannelIfNeeded with the buffer read
\* from the file
ExtractChannelIfNeeded ==
    /\ loader.status = "read"
    /\ LET extracted(r) ==
               loader' = [loader EXCEPT !.status = IF r.error = "" THEN "extracted" ELSE "thrown",
                                        !.error = r.error,
                                        !.requested = r.requested,
                                        !.buffer = r.buffer]
       IN extracted(extractChannelIfNeeded(loader.buffer, loader.sourceChannel))
    /\ UNCHANGED <<modules, stack, result, lastPass, folded, heart, parser, generator, execution, wrapper>>

InitLoader ==
    /\ modules = <<>>
    /\ stack = <<>>
    /\ result = NoResult
    /\ lastPass = NoPass
    /\ folded = {}
    /\ heart = <<>>
    /\ parser = NoParser
    /\ generator = NoGenerator
    /\ execution = NoExecution
    /\ wrapper = NoWrapper
    /\ loader \in { [status |-> "read", error |-> "", requested |-> -1,
                     source |-> [numChannels |-> c, numFrames |-> f],
                     buffer |-> [numChannels |-> c, numFrames |-> f],
                     sourceChannel |-> a] :
                       c \in 1 .. MaxChannels, f \in 1 .. MaxFrames, a \in AnnotationValues }

SpecLoader == InitLoader /\ [][ExtractChannelIfNeeded]_vars

\* C30: extractChannelIfNeeded asks getChannelSet only for a channel that the
\* buffer read from the file has: a 'sourceChannel' annotation is accepted
\* only if it is an integer from 0 up to the number of channels minus one,
\* every other value raises the out-of-range error.
C30_ChannelInRange ==
    /\ loader.status = "extracted" /\ loader.requested # -1
          => loader.requested >= 0 /\ loader.requested < loader.source.numChannels
    /\ (loader.status \in {"extracted", "thrown"} /\ loader.sourceChannel.type # "invalid")
          => (loader.status = "extracted"
                <=> /\ isPrimitiveInteger(loader.sourceChannel.type)
                    /\ loader.sourceChannel.value \in 0 .. loader.source.numChannels - 1)

\* ------------------------------------------------ SynchronousPerformerWrapper
MaxCallbacks == 4

\* attach: an OutputBufferSliceSink is made for the output endpoint; copied
\* is the slice of currentBuffer the sink last copied frames into
Attach ==
    /\ wrapper.status = "detached"
    /\ wrapper' = [status |-> "attached", isBufferAvailable |-> FALSE, bufferOffset |-> 0,
                   currentBuffer |-> [numFrames |-> 0], callbacks |-> 0,
                   copied |-> [start |-> 0, numFrames |-> 0]]
    /\ UNCHANGED <<modules, stack, result, lastPass, folded, heart, parser, generator, execution, loader>>

\* render: OutputBufferSliceSink::prepareBuffer (output), before the
\* performer advances
PrepareBuffer(numFrames) ==
    /\ wrapper.status = "attached"
    /\ wrapper' = [wrapper EXCEPT !.currentBuffer = [numFrames |-> numFrames],
                                  !.isBufferAvailable = TRUE,
                                  !.bufferOffset = 0,
                                  !.callbacks = 0,
                                  !.copied = [start |-> 0, numFrames |-> 0]]
    /\ UNCHANGED <<modules, stack, result, lastPass, folded, heart, parser, generator, execution, loader>>

\* the stream sink that OutputBufferSliceSink gives the endpoint, called by
\* the performer with numFrames frames
StreamSink(numFrames) ==
    /\ wrapper.status = "attached"
    /\ wrapper.callbacks < MaxCallbacks
    /\ IF wrapper.isBufferAvailable
       THEN wrapper' = [wrapper EXCEPT
                           !.copied = [start |-> wrapper.bufferOffset, numFrames |-> numFrames],
                           !.bufferOffset = @ + numFrames,
                           !.isBufferAvailable =
                               (wrapper.bufferOffset + numFrames < wrapper.currentBuffer.numFrames),
                           !.callbacks = @ + 1]
       ELSE wrapper' = [wrapper EXCEPT !.callbacks = @ + 1]
    /\ UNCHANGED <<modules, stack, result, lastPass, folded, heart, parser, generator, execution, loader>>

InitWrapper ==
    /\ modules = <<>>
    /\ stack = <<>>
    /\ result = NoResult
    /\ lastPass = NoPass
    /\ folded = {}
    /\ heart = <<>>
    /\ parser = NoParser
    /\ generator = NoGenerator
    /\ execution = NoExecution
    /\ wrapper = NoWrapper
    /\ loader = NoLoader

NextWrapper ==
    \/ Attach
    \/ \E numFrames \in 1 .. MaxFrames : PrepareBuffer(numFrames)
    \/ \E numFrames \in 1 .. MaxFrames : StreamSink(numFrames)

SpecWrapper == InitWrapper /\ [][NextWrapper]_vars

\* C29: whatever sink callbacks follow a prepareBuffer, the frames the sink
\* copies lie inside the output buffer given to render, and bufferOffset
\* never exceeds the number of frames of that buffer.
C29_SinkStaysInBuffer ==
    wrapper.status = "attached" =>
        /\ wrapper.copied.start + wrapper.copied.numFrames <= wrapper.currentBuffer.numFrames
        /\ wrapper.bufferOffset <= wrapper.currentBuffer.numFrames

\* ------------------------------------------------------- isFullyResolved
\* this step sets the flag of module m
BecomesFullyResolved(m) == ~ modules[m].isFullyResolved /\ modules'[m].isFullyResolved

\* this step is the early return of run from the end of an iteration
ReturnsEarly ==
    /\ AtEndOfIteration
    /\ Len(stack') < Len(stack)
    /\ result'.status # "thrown"

\* this step is a throw out of the activations of run
Throws == stack # <<>> /\ result'.status = "thrown"

\* this step adds a function to module m
ClonesInto(m) == Len(modules'[m].functions) > Len(modules[m].functions)

ArgumentTypeLists(n) == [1 .. n -> {Type("int32"), Type("float32"), Type("float64")}]

\* the outcome of getOrCreateSpecialisedFunction for the generic function
\* fid and the argument types, asked for on the present program with errors
\* ignored
SpecialisationAttempt(fid, types) ==
    getOrCreateSpecialisedFunction(
        NewVisitor(modules), fid,
        specialisedFunctionName(GetFunction(modules, fid), types), types, TRUE)

\* no function could be returned for these argument types
FailedAttempts(fid) ==
    { types \in ArgumentTypeLists(Len(GetFunction(modules, fid).parameters)) :
        SpecialisationAttempt(fid, types).function = NoFunction }

\* C28: when the wildcards of a new specialisation cannot be resolved and
\* errors are ignored, getOrCreateSpecialisedFunction returns no function and
\* leaves the function list of the parent module as it was before the
\* attempt; a second attempt with the same argument types finds no
\* specialisation either, and no clone with unresolved wildcards is left in
\* any module after a pass that ignores errors.
C28_FailedCloneRemoved ==
    /\ \A fid \in GenericFunctions : \A types \in FailedAttempts(fid) :
          LET first == SpecialisationAttempt(fid, types)
              second == getOrCreateSpecialisedFunction(
                            first.vs, fid,
                            specialisedFunctionName(GetFunction(modules, fid), types), types, TRUE)
          IN /\ first.vs.error = ""
             /\ first.vs.ms[fid[1]].functions = modules[fid[1]].functions
             /\ second.function = NoFunction
    /\ result.status # "thrown"
          => \A m \in DOMAIN modules : \A i \in DOMAIN modules[m].functions :
                modules[m].functions[i].orginalGenericFunction # NoFunction
                   => modules[m].functions[i].genericWildcards = <<>>

\* the GenericFunctionResolver has run with errors ignored on a call that it
\* could not specialise, and run has returned
C28_Witness ==
    /\ \E fid \in GenericFunctions : FailedAttempts(fid) # {}
    /\ lastPass.pass = "GenericFunctionResolver" /\ lastPass.ignoreErrors
    /\ lastPass.numFails > 0 /\ lastPass.error = ""
    /\ result.status = "returned"

\* ------------------------------------------- HEARTGenerator: function bodies
\* the statements of a function body
Block(statements, isFunctionMainBlock) ==
    [kind |-> "Block", statements |-> statements, isFunctionMainBlock |-> isFunctionMainBlock]

LoopStatement(isDoLoop, numIterations, condition, body) ==
    [kind |-> "LoopStatement", isDoLoop |-> isDoLoop, numIterations |-> numIterations,
     condition |-> condition, iterator |-> Null, body |-> body]

BreakStatement == [kind |-> "BreakStatement"]

ContinueStatement == [kind |-> "ContinueStatement"]

\* heart::Block, named by its label and index; NoBlock is the null BlockPtr
createBlock(name, index) == [name |-> name, index |-> index]

NoBlock == createBlock("", 0)

\* heart::Variable, heart::Constant (-> Constant), heart::BinaryOperator
Variable(name, type) == [kind |-> "Variable", name |-> name, type |-> type]

NoVariable == Variable("", InvalidType)

BinaryOp(lhs, rhs, op) == [kind |-> "BinaryOp", lhs |-> lhs, rhs |-> rhs, operation |-> op]

\* FunctionBuilder::createCastIfNeeded
createCastIfNeeded(e, type) ==
    IF e.type = type THEN e ELSE [kind |-> "Cast", source |-> e, type |-> type]

\* FunctionBuilder::beginBlock: the block that is open falls through to b,
\* and b is appended to the function and becomes the current block
beginBlock(g, b) ==
    LET fallThrough ==
            IF g.currentBlock # 0 /\ g.blocks[g.currentBlock].terminator.kind = "none"
            THEN [g.blocks EXCEPT ![g.currentBlock].terminator = [kind |-> "branch", target |-> b]]
            ELSE g.blocks
    IN [g EXCEPT !.blocks = Append(fallThrough, [block |-> b, statements |-> <<>>,
                                                 terminator |-> [kind |-> "none"]]),
                 !.currentBlock = Len(fallThrough) + 1]

\* FunctionBuilder::ensureBlockIsReady (with createNewBlock)
ensureBlockIsReady(g) ==
    IF g.currentBlock # 0 THEN g
    ELSE beginBlock([g EXCEPT !.blockIndex = @ + 1], createBlock("@block_", g.blockIndex))

\* FunctionBuilder::addStatement
addStatement(g, s) ==
    LET ready(g1) == [g1 EXCEPT !.blocks[g1.currentBlock].statements = Append(@, s)]
    IN ready(ensureBlockIsReady(g))

addAssignment(g, target, value) ==
    addStatement(g, [statement |-> "Assign", target |-> target, value |-> value])

\* FunctionBuilder::addBranch, addBranchIf, addReturn: the current block gets
\* the terminator and the subsequent block, if one is given, is begun
addTerminator(g, terminator, subsequentBlock) ==
    LET ready(g1) ==
            LET closed == [g1 EXCEPT !.blocks[g1.currentBlock].terminator = terminator,
                                     !.currentBlock = 0]
            IN IF subsequentBlock # NoBlock THEN beginBlock(closed, subsequentBlock) ELSE closed
    IN ready(ensureBlockIsReady(g))

addBranch(g, target, subsequentBlock) ==
    addTerminator(g, [kind |-> "branch", target |-> target], subsequentBlock)

addBranchIf(g, condition, trueBranch, falseBranch, subsequentBlock) ==
    addTerminator(g, [kind |-> "branchIf", condition |-> condition,
                      trueTarget |-> trueBranch, falseTarget |-> falseBranch], subsequentBlock)

\* evaluateAsExpression for an expression that is a constant or names a
\* variable: the heart::Constant, or the generated variable
evaluateLeaf(e) ==
    IF e.kind = "Constant" THEN e
    ELSE Variable(e.variable, Type(IF e.variable = "c" THEN "bool" ELSE "int32"))

\* the generator when it begins the function whose body is block
BeginFunction(block) ==
    [status |-> "lowering", source |-> block,
     work |-> <<[op |-> "visit", statement |-> block, currentTargetVariable |-> NoVariable]>>,
     blocks |-> <<>>, currentBlock |-> 0, blockIndex |-> 0, loopIndex |-> 0, registerIndex |-> 0,
     breakTarget |-> NoBlock, continueTarget |-> NoBlock]

\* the statement the generator visits next, and its replacement on the
\* stack of visits under way
Visiting(kind) ==
    /\ generator.status = "lowering"
    /\ generator.work # <<>>
    /\ generator.work[Len(generator.work)].op = "visit"
    /\ generator.work[Len(generator.work)].statement.kind = kind

Visited == generator.work[Len(generator.work)]

Leave(g) == [g EXCEPT !.work = SubSeq(@, 1, Len(@) - 1)]

Enter(g, frame, s, target) ==
    [g EXCEPT !.work = SubSeq(@, 1, Len(@) - 1)
                         \o <<frame, [op |-> "visit", statement |-> s, currentTargetVariable |-> target]>>]

\* HEARTGenerator::visit (Block), up to its loop over the statements
VisitBlock ==
    /\ Visiting("Block")
    /\ LET begun == IF Visited.statement.isFunctionMainBlock
                    THEN beginBlock([generator EXCEPT !.blockIndex = @ + 1],
                                    createBlock("@block_", generator.blockIndex))
                    ELSE generator
       IN generator' = [begun EXCEPT !.work[Len(generator.work)] =
                            [op |-> "block", statements |-> Visited.statement.statements, next |-> 1]]
    /\ UNCHANGED <<modules, stack, result, lastPass, folded, heart, parser, execution, wrapper, loader>>

\* for (auto& s : b.statements) { builder.ensureBlockIsReady(); visitAsStatement (s); }
VisitNextStatement ==
    /\ generator.status = "lowering"
    /\ generator.work # <<>>
    /\ Visited.op = "block"
    /\ IF Visited.next > Len(Visited.statements)
       THEN generator' = Leave(generator)
       ELSE generator' = Enter(ensureBlockIsReady(generator),
                               [Visited EXCEPT !.next = @ + 1],
                               Visited.statements[Visited.next], NoVariable)
    /\ UNCHANGED <<modules, stack, result, lastPass, folded, heart, parser, execution, wrapper, loader>>

\* HEARTGenerator::visit (LoopStatement), up to the visit of the body
VisitLoopStatement ==
    /\ Visiting("LoopStatement")
    /\ LET l == Visited.statement
           labelIndex == generator.loopIndex
           breakBlock == createBlock("@break_", labelIndex)
           continueBlock == createBlock("@cont_", labelIndex)
           startBlock == createBlock("@loop_", labelIndex)
           bodyBlock == createBlock("@body_", labelIndex)
           g == [generator EXCEPT !.loopIndex = @ + 1,
                                  !.breakTarget = breakBlock,
                                  !.continueTarget = continueBlock]
           indexType == IF /\ l.numIterations.kind = "Constant"
                           /\ l.numIterations.type.kind = "int64"
                           /\ l.numIterations.value <= 2147483647
                        THEN Type("int32")
                        ELSE IF l.numIterations.kind = "Constant" THEN l.numIterations.type
                        ELSE Type("int32")
           counterVar == Variable("$counter_" \o ToString(labelIndex), indexType)
           frame == [op |-> "loop", statement |-> l, labelIndex |-> labelIndex,
                     oldbreakTarget |-> generator.breakTarget,
                     oldcontinueTarget |-> generator.continueTarget,
                     counterVar |-> counterVar]
           isCounterInRange == BinaryOp(counterVar, Constant(indexType, 0), "greaterThan")
           begun ==
               IF l.isDoLoop THEN beginBlock(g, continueBlock)
               ELSE IF l.numIterations # Null
               THEN addBranchIf(
                        beginBlock(addAssignment(g, counterVar,
                                                 createCastIfNeeded(evaluateLeaf(l.numIterations), indexType)),
                                   startBlock),
                        isCounterInRange, bodyBlock, breakBlock, bodyBlock)
               ELSE IF l.condition = Null
               THEN addBranch(beginBlock(g, startBlock), bodyBlock, bodyBlock)
               ELSE IF l.condition.kind = "Constant"
               THEN addBranch(beginBlock(g, startBlock),
                              IF l.condition.value THEN bodyBlock ELSE breakBlock, bodyBlock)
               ELSE addBranchIf(beginBlock(g, startBlock), evaluateLeaf(l.condition),
                                bodyBlock, breakBlock, bodyBlock)
       IN generator' = Enter(begun, frame, l.body, NoVariable)
    /\ UNCHANGED <<modules, stack, result, lastPass, folded, heart, parser, execution, wrapper, loader>>

\* a visit of a loop that decrements the counter at the end of the body,
\* before the continue block
FinishLoopStatement_DecrementingInBody ==
    /\ generator.status = "lowering"
    /\ generator.work # <<>>
    /\ Visited.op = "loop"
    /\ LET l == Visited.statement
           labelIndex == Visited.labelIndex
           breakBlock == createBlock("@break_", labelIndex)
           continueBlock == createBlock("@cont_", labelIndex)
           startBlock == createBlock("@loop_", labelIndex)
           counterVar == Visited.counterVar
           ended ==
               IF l.isDoLoop
               THEN addBranchIf(generator, evaluateLeaf(l.condition),
                                continueBlock, breakBlock, breakBlock)
               ELSE IF l.numIterations # Null
               THEN addBranch(beginBlock(addAssignment(generator, counterVar,
                                            BinaryOp(counterVar, Constant(counterVar.type, 1), "subtract")),
                                         continueBlock),
                              startBlock, breakBlock)
               ELSE addBranch(beginBlock(generator, continueBlock), startBlock, breakBlock)
       IN generator' = Leave([ended EXCEPT !.breakTarget = Visited.oldbreakTarget,
                                           !.continueTarget = Visited.oldcontinueTarget])
    /\ UNCHANGED <<modules, stack, result, lastPass, folded, heart, parser, execution, wrapper, loader>>

\* a visit of a loop that leaves its own targets in force when it returns
FinishLoopStatement_KeepingTargets ==
    /\ generator.status = "lowering"
    /\ generator.work # <<>>
    /\ Visited.op = "loop"
    /\ LET l == Visited.statement
           labelIndex == Visited.labelIndex
           breakBlock == createBlock("@break_", labelIndex)
           continueBlock == createBlock("@cont_", labelIndex)
           startBlock == createBlock("@loop_", labelIndex)
           counterVar == Visited.counterVar
           ended ==
               IF l.isDoLoop
               THEN addBranchIf(generator, evaluateLeaf(l.condition),
                                continueBlock, breakBlock, breakBlock)
               ELSE IF l.numIterations # Null
               THEN addBranch(addAssignment(beginBlock(generator, continueBlock), counterVar,
                                            BinaryOp(counterVar, Constant(counterVar.type, 1), "subtract")),
                              startBlock, breakBlock)
               ELSE addBranch(beginBlock(generator, continueBlock), startBlock, breakBlock)
       IN generator' = Leave(ended)
    /\ UNCHANGED <<modules, stack, result, lastPass, folded, heart, parser, execution, wrapper, loader>>

\* HEARTGenerator::visit (LoopStatement), after the visit of the body
FinishLoopStatement ==
    /\ generator.status = "lowering"
    /\ generator.work # <<>>
    /\ Visited.op = "loop"
    /\ LET l == Visited.statement
           labelIndex == Visited.labelIndex
           breakBlock == createBlock("@break_", labelIndex)
           continueBlock == createBlock("@cont_", labelIndex)
           startBlock == createBlock("@loop_", labelIndex)
           counterVar == Visited.counterVar
           ended ==
               IF l.isDoLoop
               THEN addBranchIf(generator, evaluateLeaf(l.condition),
                                continueBlock, breakBlock, breakBlock)
               ELSE IF l.numIterations # Null
               THEN addBranch(addAssignment(beginBlock(generator, continueBlock), counterVar,
                                            BinaryOp(counterVar, Constant(counterVar.type, 1), "subtract")),
                              startBlock, breakBlock)
               ELSE addBranch(beginBlock(generator, continueBlock), startBlock, breakBlock)
       IN generator' = Leave([ended EXCEPT !.breakTarget = Visited.oldbreakTarget,
                                           !.continueTarget = Visited.oldcontinueTarget])
    /\ UNCHANGED <<modules, stack, result, lastPass, folded, heart, parser, execution, wrapper, loader>>

\* HEARTGenerator::visit (BreakStatement)
VisitBreakStatement ==
    /\ Visiting("BreakStatement")
    /\ generator.breakTarget # NoBlock
    /\ generator' = Leave(addBranch([generator EXCEPT !.blockIndex = @ + 1], generator.breakTarget,
                                    createBlock("@block_", generator.blockIndex)))
    /\ UNCHANGED <<modules, stack, result, lastPass, folded, heart, parser, execution, wrapper, loader>>

\* HEARTGenerator::visit (ContinueStatement)
VisitContinueStatement ==
    /\ Visiting("ContinueStatement")
    /\ generator.continueTarget # NoBlock
    /\ generator' = Leave(addBranch([generator EXCEPT !.blockIndex = @ + 1], generator.continueTarget,
                                    createBlock("@block_", generator.blockIndex)))
    /\ UNCHANGED <<modules, stack, result, lastPass, folded, heart, parser, execution, wrapper, loader>>

\* HEARTGenerator::visit (AdvanceClock)
VisitAdvanceClock ==
    /\ Visiting("AdvanceClock")
    /\ generator' = Leave(addStatement(generator, [statement |-> "AdvanceClock"]))
    /\ UNCHANGED <<modules, stack, result, lastPass, folded, heart, parser, execution, wrapper, loader>>

\* FunctionBuilder::createRegisterVariable
createRegisterVariable(g, type) == Variable("$r" \o ToString(g.registerIndex), type)

\* HEARTGenerator::visit (VariableDeclaration) for a local variable:
\* visitWithDestination (target, v.initialValue), or a zero assignment
VisitVariableDeclaration ==
    /\ Visiting("VariableDeclaration")
    /\ LET v == Visited.statement
           target == Variable(v.name, v.type)
       IN generator' =
              IF v.initialValue # Null
              THEN [generator EXCEPT !.work[Len(generator.work)] =
                       [op |-> "visit", statement |-> v.initialValue, currentTargetVariable |-> target]]
              ELSE Leave(addAssignment(generator, target, Constant(v.type, 0)))
    /\ UNCHANGED <<modules, stack, result, lastPass, folded, heart, parser, execution, wrapper, loader>>

\* a visit of a cast that gives the source of the cast the variable that
\* receives the cast value
VisitTypeCast_WithoutLocalCopy ==
    /\ Visiting("TypeCast")
    /\ Visited.currentTargetVariable # NoVariable
    /\ generator' = [generator EXCEPT !.work[Len(generator.work)] =
                        [op |-> "visit", statement |-> Visited.statement.arguments[1],
                         currentTargetVariable |-> Visited.currentTargetVariable]]
    /\ UNCHANGED <<modules, stack, result, lastPass, folded, heart, parser, execution, wrapper, loader>>

\* HEARTGenerator::visit (TypeCast) -> createAssignmentToCurrentTarget ->
\* createAssignment -> evaluateAsExpression (cast): the source, which is not
\* an expression that evaluateAsExpression builds in place, goes into a
\* register of its own type by getExpressionAsConstLocalCopy
VisitTypeCast ==
    /\ Visiting("TypeCast")
    /\ Visited.currentTargetVariable # NoVariable
    /\ LET c == Visited.statement
           source == c.arguments[1]
           local == createRegisterVariable(generator, evaluateLeaf(source.target).type)
       IN generator' = Enter([generator EXCEPT !.registerIndex = @ + 1],
                             [op |-> "cast", statement |-> c, local |-> local,
                              currentTargetVariable |-> Visited.currentTargetVariable],
                             source, local)
    /\ UNCHANGED <<modules, stack, result, lastPass, folded, heart, parser, execution, wrapper, loader>>

\* ... and the cast of the register is assigned to the current target
FinishTypeCast ==
    /\ generator.status = "lowering"
    /\ generator.work # <<>>
    /\ Visited.op = "cast"
    /\ generator' = Leave(addAssignment(generator, Visited.currentTargetVariable,
                              createCastIfNeeded(createCastIfNeeded(Visited.local, Visited.statement.targetType),
                                                 Visited.currentTargetVariable.type)))
    /\ UNCHANGED <<modules, stack, result, lastPass, folded, heart, parser, execution, wrapper, loader>>

\* HEARTGenerator::visit (PreOrPostIncOrDec)
VisitPreOrPostIncOrDec ==
    /\ Visiting("PreOrPostIncOrDec")
    /\ LET p == Visited.statement
           resultDestVar == Visited.currentTargetVariable
           op == IF p.isIncrement THEN "add" ELSE "subtract"
           dest == evaluateLeaf(p.target)
           type == removeReferenceIfPresent(dest.type)
           oldValue == createRegisterVariable(generator, type)
           g == addAssignment([generator EXCEPT !.registerIndex = @ + 1], oldValue, dest)
           one == Constant(type, 1)
           incrementedValue == BinaryOp(oldValue, one, op)
       IN generator' = Leave(
              IF resultDestVar = NoVariable
              THEN addAssignment(g, dest, incrementedValue)
              ELSE IF p.isPost
              THEN addAssignment(addAssignment(g, dest, incrementedValue), resultDestVar, oldValue)
              ELSE addAssignment(addAssignment(g, resultDestVar, incrementedValue), dest, resultDestVar))
    /\ UNCHANGED <<modules, stack, result, lastPass, folded, heart, parser, execution, wrapper, loader>>

\* generateFunction, after the visit of the block: FunctionBuilder::endFunction
\* ends the function's last block with a return
EndFunction ==
    /\ generator.status = "lowering"
    /\ generator.work = <<>>
    /\ generator' =
           [(IF generator.currentBlock # 0
             THEN addTerminator(generator, [kind |-> "return"], NoBlock)
             ELSE generator) EXCEPT !.status = "done"]
    /\ UNCHANGED <<modules, stack, result, lastPass, folded, heart, parser, execution, wrapper, loader>>

\* ------------------------------------------------ running the heart function
\* the size N of the bounded integer type wrap<N> of the programs
BoundedIntLimit == 3

\* a value converted to a type: a bounded integer wraps, an int32 of the
\* values at hand keeps its value
castValue(value, type) ==
    IF isBoundedInt(type) THEN value % BoundedIntLimit ELSE value

\* the value of a heart expression, given the values of the variables
RECURSIVE evaluate(_, _)
evaluate(e, variables) ==
    CASE e.kind = "Constant" -> e.value
      [] e.kind = "Variable" -> variables[e.name]
      [] e.kind = "Cast" -> castValue(evaluate(e.source, variables), e.type)
      [] e.kind = "BinaryOp" ->
            LET lhs == evaluate(e.lhs, variables)
                rhs == evaluate(e.rhs, variables)
            IN CASE e.operation = "greaterThan" -> lhs > rhs
                 [] e.operation = "add" -> lhs + rhs
                 [] e.operation = "subtract" -> lhs - rhs

\* the statements of a block, run in order
RECURSIVE runStatements(_, _)
runStatements(statements, e) ==
    IF statements = <<>> THEN e
    ELSE LET s == Head(statements)
         IN runStatements(Tail(statements),
                CASE s.statement = "AdvanceClock" -> [e EXCEPT !.advances = @ + 1]
                  [] s.statement = "Assign" ->
                        [e EXCEPT !.variables =
                            (s.target.name :> castValue(evaluate(s.value, e.variables), s.target.type)) @@ @])

\* the place of a block in the function
BlockAt(b) == CHOOSE i \in DOMAIN generator.blocks : generator.blocks[i].block = b

\* the function is called: n, x are the values of the variables it reads
Call(n, x) ==
    /\ generator.status = "done"
    /\ execution.status = "none"
    /\ execution' = [status |-> "running", block |-> 1, advances |-> 0,
                     arguments |-> [n |-> n, x |-> x],
                     variables |-> ("n" :> n @@ "x" :> x)]
    /\ UNCHANGED <<modules, stack, result, lastPass, folded, heart, parser, generator, wrapper, loader>>

\* the time a call may advance by
MaxAdvances == 10

\* one block runs: its statements, then its terminator; taken is the value
\* of a condition that the program reads from its state
ExecuteBlock(taken) ==
    /\ execution.status = "running"
    /\ LET b == generator.blocks[execution.block]
           ran == runStatements(b.statements, execution)
           t == b.terminator
       IN /\ ran.advances <= MaxAdvances
          /\ execution' =
                CASE t.kind = "return" -> [ran EXCEPT !.status = "returned"]
                  [] t.kind = "branch" -> [ran EXCEPT !.block = BlockAt(t.target)]
                  [] t.kind = "branchIf" ->
                        LET condition == IF t.condition.kind = "Variable" THEN taken
                                         ELSE evaluate(t.condition, ran.variables)
                        IN [ran EXCEPT !.block = BlockAt(IF condition THEN t.trueTarget
                                                         ELSE t.falseTarget)]
    /\ UNCHANGED <<modules, stack, result, lastPass, folded, heart, parser, generator, wrapper, loader>>

\* ------------------------------------------------------- the loops lowered
\* the values of n and x that the function is called with
CallArguments == {<<-1, 0>>, <<0, 1>>, <<2, 2>>}

\* the loops of each kind around a body
LoopsAround(body) ==
    { LoopStatement(FALSE, Constant(Type("int64"), 2), Null, body),
      LoopStatement(FALSE, VariableRef("n"), Null, body),
      LoopStatement(FALSE, Null, VariableRef("c"), body),
      LoopStatement(TRUE, Null, VariableRef("c"), body),
      LoopStatement(FALSE, Null, Null, body) }

\* the bodies made of a statement and a break or continue around it
BodiesOf(s) ==
    { Block(statements, FALSE) :
        statements \in { <<s>>, <<s, ContinueStatement>>, <<s, BreakStatement>>,
                         <<ContinueStatement, s>>, <<s, AdvanceClock>> } }

LoopsOfDepth1 == UNION { LoopsAround(b) : b \in BodiesOf(AdvanceClock) }

LoopsOfDepth2 == UNION { LoopsAround(b) : b \in UNION { BodiesOf(l) : l \in LoopsOfDepth1 } }

\* three loops, one in the other, each counted or a do-loop, each body
\* ending in a break or a continue
LoopsOfDepth3 ==
    LET Around(s) == { LoopStatement(d = 1, IF d = 1 THEN Null ELSE Constant(Type("int64"), 2),
                                     IF d = 1 THEN VariableRef("c") ELSE Null,
                                     Block(<<s, j>>, FALSE))
                       : d \in {0, 1}, j \in {BreakStatement, ContinueStatement} }
    IN UNION { Around(m) : m \in UNION { Around(i) : i \in Around(AdvanceClock) } }

LoopPrograms ==
    { Block(<<l>>, TRUE) : l \in LoopsOfDepth1 \cup LoopsOfDepth2 \cup LoopsOfDepth3 }

\* x++, ++x, x--, --x as a statement, as the initial value of a variable of
\* the type of x, and cast to the bounded integer type of the variable
IncDecPrograms ==
    LET IncOrDec(isIncrement, isPost) ==
            PreOrPostIncOrDec(VariableRef("x")) @@ [isIncrement |-> isIncrement, isPost |-> isPost]
        Declaration(type, init) ==
            VariableDeclaration("y", type, FALSE, init) @@ [kind |-> "VariableDeclaration"]
    IN UNION { { Block(<<p>>, TRUE),
                 Block(<<Declaration(Type("int32"), p)>>, TRUE),
                 Block(<<Declaration(Type("wrap"), TypeCast(Type("wrap"), <<p>>))>>, TRUE) }
               : p \in { IncOrDec(i, j) : i \in BOOLEAN, j \in BOOLEAN } }

InitGenerator ==
    /\ modules = <<>>
    /\ stack = <<>>
    /\ result = NoResult
    /\ lastPass = NoPass
    /\ folded = {}
    /\ heart = <<>>
    /\ parser = NoParser
    /\ generator \in { BeginFunction(p) : p \in LoopPrograms \cup IncDecPrograms }
    /\ execution = NoExecution
    /\ wrapper = NoWrapper
    /\ loader = NoLoader

NextGenerator ==
    \/ VisitBlock
    \/ VisitNextStatement
    \/ VisitLoopStatement
    \/ FinishLoopStatement
    \/ VisitBreakStatement
    \/ VisitContinueStatement
    \/ VisitAdvanceClock
    \/ VisitVariableDeclaration
    \/ VisitTypeCast
    \/ FinishTypeCast
    \/ VisitPreOrPostIncOrDec
    \/ EndFunction
    \/ \E a \in CallArguments : Call(a[1], a[2])
    \/ \E taken \in BOOLEAN : ExecuteBlock(taken)

SpecGenerator == InitGenerator /\ [][NextGenerator]_vars

\* the loops of a statement in the order in which the generator visits them:
\* the loop at place k + 1 gets the label index k
RECURSIVE LoopsIn(_)
LoopsIn(s) ==
    CASE s.kind = "Block" ->
            IF s.statements = <<>> THEN <<>>
            ELSE LoopsIn(Head(s.statements))
                    \o LoopsIn([s EXCEPT !.statements = Tail(s.statements)])
      [] s.kind = "LoopStatement" -> <<s>> \o LoopsIn(s.body)
      [] OTHER -> <<>>

LoopLabelled(labelIndex) == LoopsIn(generator.source)[labelIndex + 1]

\* ---------------------------------------------------- continue in a do-loop
\* the body of the do-loop with label index k starts at the block @cont_k,
\* which the generator begins before it visits the body; the running
\* function re-enters the body when it comes to that block from the block
\* itself or from a later one
ReentersDoLoopBody ==
    /\ execution.status = "running"
    /\ execution'.status = "running"
    /\ generator.blocks[execution'.block].block.name = "@cont_"
    /\ LoopLabelled(generator.blocks[execution'.block].block.index).isDoLoop
    /\ execution.block >= execution'.block

\* C25: in the lowered form of a do-loop, control never re-enters the body
\* without the loop's condition having been evaluated since the previous
\* pass: each step that re-enters the body is the conditional branch at the
\* tail of the loop, also when the pass ended with continue
C25_BodyReenteredThroughTailTest ==
    [][ReentersDoLoopBody =>
            /\ generator.blocks[execution.block].terminator.kind = "branchIf"
            /\ generator.blocks[execution.block].terminator.condition
                   = evaluateLeaf(LoopLabelled(generator.blocks[execution'.block].block.index).condition)]_vars

\* ------------------------------------------------------------ counted loops
\* a statement whose loops are all counted and that holds no break
RECURSIVE IsCounted(_)
IsCounted(s) ==
    CASE s.kind = "Block" -> \A i \in DOMAIN s.statements : IsCounted(s.statements[i])
      [] s.kind = "LoopStatement" -> s.numIterations # Null /\ IsCounted(s.body)
      [] s.kind = "BreakStatement" -> FALSE
      [] OTHER -> TRUE

\* the number of passes that loop (N) is to make
NumIterations(l, arguments) ==
    LET N == IF l.numIterations.kind = "Constant" THEN l.numIterations.value
             ELSE arguments[l.numIterations.variable]
    IN IF N > 0 THEN N ELSE 0

\* the time by which a counted statement advances when each loop (N) runs
\* its body N times, a pass ending at its first continue
RECURSIVE AdvancesOf(_, _)
AdvancesOf(s, arguments) ==
    CASE s.kind = "AdvanceClock" -> 1
      [] s.kind = "LoopStatement" -> NumIterations(s, arguments) * AdvancesOf(s.body, arguments)
      [] s.kind = "Block" ->
            IF s.statements = <<>> \/ Head(s.statements).kind = "ContinueStatement" THEN 0
            ELSE AdvancesOf(Head(s.statements), arguments)
                    + AdvancesOf([s EXCEPT !.statements = Tail(s.statements)], arguments)
      [] OTHER -> 0

\* C21: the lowered form of loop (N) body runs the body exactly N times when
\* N > 0 and the body has no break, and not at all when N <= 0, also when
\* passes end with continue: the function never advances by more than its
\* counted loops allow, it has advanced by exactly that much when it
\* returns, and each counter that was set has then been counted down to 0,
\* or was never positive
C21_CountedLoopRunsNTimes ==
    (execution.status \in {"running", "returned"} /\ IsCounted(generator.source)) =>
        /\ execution.advances <= AdvancesOf(generator.source, execution.arguments)
        /\ execution.status = "returned" =>
            /\ execution.advances = AdvancesOf(generator.source, execution.arguments)
            /\ \A k \in 0 .. (generator.loopIndex - 1) :
                  LET name == "$counter_" \o ToString(k)
                  IN name \in DOMAIN execution.variables =>
                        execution.variables[name] <= 0
                        /\ (NumIterations(LoopLabelled(k), execution.arguments) > 0
                                => execution.variables[name] = 0)

\* loop (n) { advance(); continue; } has run with n = 2
C21_Witness ==
    /\ execution.status = "returned"
    /\ generator.source.statements[1].kind = "LoopStatement"
    /\ generator.source.statements[1].numIterations = VariableRef("n")
    /\ generator.source.statements[1].body.statements = <<AdvanceClock, ContinueStatement>>
    /\ execution.arguments.n = 2
    /\ execution.advances = 2

\* ------------------------------------------- the targets of break, continue
\* the visit of a loop that is under way innermost
InnermostLoop ==
    LET loops == { i \in DOMAIN generator.work : generator.work[i].op = "loop" }
    IN IF loops = {} THEN 0 ELSE CHOOSE i \in loops : \A j \in loops : j <= i

ExitBlockInForce ==
    IF InnermostLoop = 0 THEN NoBlock
    ELSE createBlock("@break_", generator.work[InnermostLoop].labelIndex)

ContinueBlockInForce ==
    IF InnermostLoop = 0 THEN NoBlock
    ELSE createBlock("@cont_", generator.work[InnermostLoop].labelIndex)

\* C22: while a function is lowered the current targets are those of the
\* innermost loop whose lowering is under way, or null outside any loop, so
\* after a nested loop they are again those of the enclosing loop; and a
\* break or continue ends the current block with a branch to the exit block,
\* or the continue block, of the innermost enclosing loop
C22_TargetsOfInnermostLoop ==
    /\ [](generator.status \in {"lowering", "done"} =>
            /\ generator.breakTarget = ExitBlockInForce
            /\ generator.continueTarget = ContinueBlockInForce)
    /\ [][/\ Visiting("BreakStatement") =>
                generator'.blocks[generator.currentBlock].terminator
                    = [kind |-> "branch", target |-> ExitBlockInForce]
          /\ Visiting("ContinueStatement") =>
                generator'.blocks[generator.currentBlock].terminator
                    = [kind |-> "branch", target |-> ContinueBlockInForce]]_vars

\* the outermost of three loops is left by a break that follows the two
\* loops inside it
C22_Witness ==
    /\ Visiting("BreakStatement")
    /\ generator.loopIndex = 3
    /\ InnermostLoop # 0
    /\ generator.work[InnermostLoop].labelIndex = 0
    /\ generator.breakTarget = createBlock("@break_", 0)

\* ------------------------------------------------ increment and decrement
\* the function body is x++, ++x, x-- or --x, as a statement or as the
\* initial value of y
IsIncOrDecProgram ==
    generator.source.statements[1].kind \in {"PreOrPostIncOrDec", "VariableDeclaration"}

TheIncOrDec ==
    LET s == generator.source.statements[1]
    IN IF s.kind = "PreOrPostIncOrDec" THEN s
       ELSE IF s.initialValue.kind = "TypeCast" THEN s.initialValue.arguments[1]
       ELSE s.initialValue

\* the number of places of a heart expression that read the variable
RECURSIVE ReadsIn(_, _)
ReadsIn(e, name) ==
    CASE e.kind = "Variable" -> IF e.name = name THEN 1 ELSE 0
      [] e.kind = "Cast" -> ReadsIn(e.source, name)
      [] e.kind = "BinaryOp" -> ReadsIn(e.lhs, name) + ReadsIn(e.rhs, name)
      [] OTHER -> 0

\* the number of reads of the variable, and of assignments to it, in the
\* statements of the function
ReadsOf(name) ==
    SumSeq([i \in DOMAIN generator.blocks |->
        SumSeq([j \in DOMAIN generator.blocks[i].statements |->
            ReadsIn(generator.blocks[i].statements[j].value, name)])])

WritesTo(name) ==
    SumSeq([i \in DOMAIN generator.blocks |->
        SumSeq([j \in DOMAIN generator.blocks[i].statements |->
            IF generator.blocks[i].statements[j].target.name = name THEN 1 ELSE 0])])

IncrementedValue ==
    IF TheIncOrDec.isIncrement THEN execution.arguments.x + 1 ELSE execution.arguments.x - 1

\* C24: the lowered x++, x--, ++x, --x reads x once and writes it once; the
\* value of x afterwards is the original value plus (minus) one whatever the
\* type of the variable y that receives the result; y gets the original
\* value from a post-form and the incremented value from a pre-form,
\* converted to its type; as a statement only the write-back happens
C24_IncOrDecLowering ==
    (execution.status = "returned" /\ IsIncOrDecProgram) =>
        /\ ReadsOf("x") = 1
        /\ WritesTo("x") = 1
        /\ execution.variables["x"] = IncrementedValue
        /\ IF generator.source.statements[1].kind = "VariableDeclaration"
           THEN /\ "y" \in DOMAIN execution.variables
                /\ execution.variables["y"]
                      = castValue(IF TheIncOrDec.isPost THEN execution.arguments.x ELSE IncrementedValue,
                                  generator.source.statements[1].type)
           ELSE /\ Len(generator.blocks) = 1
                /\ Len(generator.blocks[1].statements) = 2
                /\ DOMAIN execution.variables = {"n", "x", "$r0"}

\* wrap<3> y = wrap<3> (++x) has run with x = 2: x is 3 and y is 0
C24_Witness ==
    /\ execution.status = "returned"
    /\ IsIncOrDecProgram
    /\ generator.source.statements[1].kind = "VariableDeclaration"
    /\ generator.source.statements[1].type = Type("wrap")
    /\ TheIncOrDec.isIncrement /\ ~ TheIncOrDec.isPost
    /\ execution.arguments.x = 2
    /\ execution.variables["x"] = 3
    /\ execution.variables["y"] = 0

\* --------------------------------------- HEARTGenerator: nested expressions
\* The generator while it lowers `let y = e`: callStack holds the calls of
\* visitWithDestination, createAssignment and evaluateAsExpression that are
\* under way, control the call or return that happens next.
MaxCallStack == 40

BeginStatement(e, maxDepth) ==
    [status |-> "evaluating", source |-> e,
     maxExpressionDepth |-> maxDepth, expressionDepth |-> 0,
     currentTargetVariable |-> NoVariable,
     callStack |-> <<>>,
     control |-> [op |-> "visitWithDestination", destVar |-> Variable("y", Type("int32")), e |-> e],
     statements |-> <<>>, registerIndex |-> 0]

Evaluating(op) == generator.status = "evaluating" /\ generator.control.op = op

Returning(fn) ==
    /\ Evaluating("return")
    /\ generator.callStack # <<>>
    /\ generator.callStack[Len(generator.callStack)].fn = fn

Caller == generator.callStack[Len(generator.callStack)]

\* visitWithDestination (destVar, e), up to the end of the visit of e:
\* visit (Constant) and visit (VariableRef) assign to the target, visit
\* (BinaryOperator) calls createAssignmentToCurrentTarget -> createAssignment
VisitWithDestination ==
    /\ Evaluating("visitWithDestination")
    /\ Len(generator.callStack) + 2 <= MaxCallStack
    /\ LET destVar == generator.control.destVar
           e == generator.control.e
           frame == [fn |-> "visitWithDestination", oldTarget |-> generator.currentTargetVariable,
                     oldDepth |-> generator.expressionDepth]
           g == [generator EXCEPT !.currentTargetVariable = destVar, !.expressionDepth = 0]
       IN generator' =
              IF e.kind \in {"Constant", "VariableRef"}
              THEN [g EXCEPT !.callStack = Append(@, frame),
                             !.statements = Append(@, [statement |-> "Assign", target |-> destVar,
                                                       value |-> evaluateLeaf(e)]),
                             !.control = [op |-> "return", value |-> Null]]
              ELSE [g EXCEPT !.callStack = @ \o <<frame, [fn |-> "createAssignment", destVar |-> destVar]>>,
                             !.control = [op |-> "evaluateAsExpression", e |-> e]]
    /\ UNCHANGED <<modules, stack, result, lastPass, folded, heart, parser, execution, wrapper, loader>>

\* evaluateAsExpression (e), up to its first call or its return
EvaluateAsExpression ==
    /\ Evaluating("evaluateAsExpression")
    /\ Len(generator.callStack) < MaxCallStack
    /\ LET e == generator.control.e
           expressionDepth == generator.expressionDepth + 1
           frame == [fn |-> "evaluateAsExpression", e |-> e]
           local == createRegisterVariable(generator, Type("int32"))
       IN generator' =
              IF expressionDepth < generator.maxExpressionDepth
              THEN IF e.kind \in {"Constant", "VariableRef"}
                   THEN [generator EXCEPT !.expressionDepth = expressionDepth,
                                          !.callStack = Append(@, frame @@ [at |-> "leaf"]),
                                          !.control = [op |-> "return", value |-> evaluateLeaf(e)]]
                   ELSE [generator EXCEPT !.expressionDepth = expressionDepth,
                                          !.callStack = Append(@, frame @@ [at |-> "lhs"]),
                                          !.control = [op |-> "evaluateAsExpression", e |-> e.lhs]]
              ELSE [generator EXCEPT !.expressionDepth = expressionDepth,
                                     !.registerIndex = @ + 1,
                                     !.callStack = Append(@, frame @@ [at |-> "localCopy", local |-> local]),
                                     !.control = [op |-> "visitWithDestination", destVar |-> local, e |-> e]]
    /\ UNCHANGED <<modules, stack, result, lastPass, folded, heart, parser, execution, wrapper, loader>>

\* evaluateAsExpression goes on when a call it made returns: after the lhs
\* it evaluates the rhs, after the rhs it returns the binary operator, after
\* getExpressionAsConstLocalCopy it returns the local
ResumeEvaluateAsExpression ==
    /\ Returning("evaluateAsExpression")
    /\ LET value == generator.control.value
           popped == SubSeq(generator.callStack, 1, Len(generator.callStack) - 1)
       IN generator' =
              CASE Caller.at = "leaf" -> [generator EXCEPT !.callStack = popped]
                [] Caller.at = "lhs" ->
                      [generator EXCEPT !.callStack[Len(generator.callStack)] =
                                            [fn |-> "evaluateAsExpression", e |-> Caller.e,
                                             at |-> "rhs", lhs |-> value],
                                        !.control = [op |-> "evaluateAsExpression", e |-> Caller.e.rhs]]
                [] Caller.at = "rhs" ->
                      [generator EXCEPT !.callStack = popped,
                                        !.control = [op |-> "return",
                                                     value |-> BinaryOp(Caller.lhs, value, Caller.e.operation)]]
                [] Caller.at = "localCopy" ->
                      [generator EXCEPT !.callStack = popped,
                                        !.control = [op |-> "return", value |-> Caller.local]]
    /\ UNCHANGED <<modules, stack, result, lastPass, folded, heart, parser, execution, wrapper, loader>>

\* createAssignment: builder.addAssignment (destVar, the expression returned)
ResumeCreateAssignment ==
    /\ Returning("createAssignment")
    /\ generator' = [generator EXCEPT
                        !.callStack = SubSeq(@, 1, Len(@) - 1),
                        !.statements = Append(@, [statement |-> "Assign", target |-> Caller.destVar,
                                                  value |-> generator.control.value]),
                        !.control = [op |-> "return", value |-> Null]]
    /\ UNCHANGED <<modules, stack, result, lastPass, folded, heart, parser, execution, wrapper, loader>>

\* visitWithDestination after the visit: the target and the depth are restored
ResumeVisitWithDestination ==
    /\ Returning("visitWithDestination")
    /\ generator' = [generator EXCEPT
                        !.callStack = SubSeq(@, 1, Len(@) - 1),
                        !.currentTargetVariable = Caller.oldTarget,
                        !.expressionDepth = Caller.oldDepth,
                        !.status = IF Len(generator.callStack) = 1 THEN "done" ELSE @]
    /\ UNCHANGED <<modules, stack, result, lastPass, folded, heart, parser, execution, wrapper, loader>>

\* the calls under way have used up the stack of the compiler
StackOverflow ==
    /\ generator.status = "evaluating"
    /\ generator.control.op \in {"visitWithDestination", "evaluateAsExpression"}
    /\ Len(generator.callStack) + 2 > MaxCallStack
    /\ generator' = [generator EXCEPT !.status = "stack overflow"]
    /\ UNCHANGED <<modules, stack, result, lastPass, folded, heart, parser, execution, wrapper, loader>>

\* the expressions: operators nested to the left, to the right and on both
\* sides, up to MaxNesting deep
MaxNesting == 5

MaxDepthSetting == 4

RECURSIVE NestedExpressions(_)
NestedExpressions(depth) ==
    IF depth = 0 THEN { VariableRef("x"), Constant(Type("int32"), 1) }
    ELSE LET inner == NestedExpressions(depth - 1)
             leaf == VariableRef("n")
         IN inner \cup { BinaryOperator("add", e, leaf) : e \in inner }
                  \cup { BinaryOperator("add", leaf, e) : e \in inner }
                  \cup { BinaryOperator("add", e, e) : e \in { i \in inner : i.kind # "BinaryOperator"
                                                                  \/ i.lhs = VariableRef("n") } }

InitExpression ==
    /\ modules = <<>>
    /\ stack = <<>>
    /\ result = NoResult
    /\ lastPass = NoPass
    /\ folded = {}
    /\ heart = <<>>
    /\ parser = NoParser
    /\ generator \in { BeginStatement(e, maxDepth) :
                          e \in NestedExpressions(MaxNesting), maxDepth \in 1 .. MaxDepthSetting }
    /\ execution = NoExecution
    /\ wrapper = NoWrapper
    /\ loader = NoLoader

NextExpression ==
    \/ VisitWithDestination
    \/ EvaluateAsExpression
    \/ ResumeEvaluateAsExpression
    \/ ResumeCreateAssignment
    \/ ResumeVisitWithDestination
    \/ StackOverflow

SpecExpression == InitExpression /\ [][NextExpression]_vars

\* the compiler runs on until the statement is lowered
FairSpecExpression == SpecExpression /\ WF_vars(NextExpression)

\* the calls of evaluateAsExpression that are under way
NestedCalls ==
    Len(SelectSeq(generator.callStack, LAMBDA frame : frame.fn = "evaluateAsExpression"))

\* C23: while a statement is lowered the chain of nested evaluateAsExpression
\* calls never grows deeper than maxExpressionDepth, however deeply the
\* expression is nested
C23_NestedCallsCapped ==
    (generator.status = "evaluating" /\ generator.maxExpressionDepth >= 2) =>
        NestedCalls <= generator.maxExpressionDepth

\* C26: the lowering of a finite expression comes to an end, for every
\* maximum expression depth of at least 1
C26_LoweringTerminates == <>(generator.status = "done")

====
